---- MODULE Spec2Model ----
(***************************************************************************)
(* The onboarding / offboarding workflow engine of nexus-apis              *)
(* (src/src/mcp-http-server.ts, executeTool): two in-memory record stores  *)
(* keyed by employee id, the tool handlers that read and mutate them, and  *)
(* the value each handler returns.                                         *)
(*                                                                         *)
(* JavaScript values are modelled as follows.  An object is a TLA+ record; *)
(* a property that is undefined is a field that is absent.  A Map is a     *)
(* function whose DOMAIN is the set of keys present.  A template literal   *)
(* is the sequence of its pieces, booleans rendered as "true" / "false"    *)
(* the way string interpolation renders them.  new Date().toISOString()    *)
(* is the opaque value Now.                                                *)
(*                                                                         *)
(* result is the value executeTool returned last.  requests holds the      *)
(* POST /message requests that are in flight in the HTTP router, each with *)
(* its position in the route handler; it stays empty in the specifications *)
(* that call executeTool directly, one call after the other.               *)
(*                                                                         *)
(* purchaseOrders is the array of the purchase-order routes of             *)
(* src/src/index.ts and response the status and body they sent last.       *)
(* transports is the session map of the Streamable HTTP router of          *)
(* src/src/mcp-http.ts, created the transports it has constructed,         *)
(* connections the transports the server was connected to, in order, and   *)
(* handledBy the transport that handled the last request.                  *)
(***************************************************************************)
EXTENDS Naturals, Sequences, FiniteSets, TLC

VARIABLES onboardingRecords, offboardingRecords, result, requests,
          purchaseOrders, response,
          transports, created, connections, handledBy

\* The state of the purchase-order routes.
poVars == <<purchaseOrders, response>>

\* The state of the Streamable HTTP router.
mcpVars == <<transports, created, connections, handledBy>>

vars == <<onboardingRecords, offboardingRecords, result, requests,
          purchaseOrders, response,
          transports, created, connections, handledBy>>

----------------------------------------------------------------------------
(* Bounds of the model.                                                    *)

\* Longest audit trail of a record in SpecFlow.
MaxAudit == 8

\* Longest audit trail of a record in SpecApproval.
MaxApprovalAudit == 5

\* Longest audit trail of a record in SpecTrackers.
MaxTrackerAudit == 3

\* Largest total number of audit entries over all records in Spec.
MaxTotalAudit == 3

\* Longest audit trail of a record in SpecProvision.
MaxProvisionAudit == 5

\* Requests in flight in the router at a time.
MaxInFlight == 2

\* Audit entries written plus requests in flight when a request is accepted,
\* in SpecConcurrent.
MaxConcurrentAudit == 3

\* Audit entries of a record up to which rejecting and flag-clearing calls are
\* issued, in SpecWorkflow.
MaxDisturbedAudit == 3

\* Largest total number of history entries over the purchase orders in SpecPO.
MaxPoHistory == 3

\* Transports constructed by the Streamable HTTP router in SpecMcp.
MaxTransports == 6

\* Audit entries of a completed record up to which rejecting and flag-clearing
\* calls are issued against it, in SpecCompleted.
MaxCompletedAudit == 8

----------------------------------------------------------------------------
(* Inputs the callers draw from.                                           *)

EmployeeIds == {"EMP-1", "EMP-2"}

FlowIds == {"EMP-1"}

Roles == {"hr", "manager"}

Systems == {"hrms", "email", "network", "projectTools"}

\* Property names every object inherits from Object.prototype: the `in`
\* operator answers true for them on any plain object.
ObjectPrototypeKeys == {"constructor", "toString"}

Now == "now"

\* systems arguments: partial lists, the full list, an empty list, a repeated
\* name, an unknown name and an inherited property name.
SystemLists ==
  { <<>>,
    <<"email", "network">>,
    <<"hrms", "projectTools">>,
    <<"hrms", "email", "network", "projectTools">>,
    <<"email", "email">>,
    <<"vpn">>,
    <<"constructor">> }

OnboardingEmployees ==
  { [name |-> "Alice", email |-> "a@x.com", dateOfJoining |-> "2024-01-01",
     department |-> "Eng", designation |-> "SWE", manager |-> "Bob",
     workLocation |-> "Remote", contactPhone |-> "555-0100",
     employmentType |-> "Full-time", initiatedBy |-> "HR1"],
    [name |-> "Carol", email |-> "", dateOfJoining |-> "2024-02-01",
     department |-> "Ops", designation |-> "SRE", manager |-> "Bob",
     workLocation |-> "Office", contactPhone |-> "555-0101",
     employmentType |-> "Contractor", projectAssignment |-> "Nexus",
     initiatedBy |-> "HR1"] }

FlowOnboardingEmployees == { e \in OnboardingEmployees : e.name = "Alice" }

OffboardingEmployees ==
  { [employeeName |-> "Dave", lastWorkingDay |-> "2024-06-30",
     department |-> "Eng", reason |-> "Resignation", manager |-> "Bob",
     initiatedBy |-> "HR1"] }

\* Optional boolean triples of the compliance calls: every subset of the three
\* flag names, each present flag true or false.
OptionalFlags(names) ==
  UNION { [present -> BOOLEAN] : present \in SUBSET names }

----------------------------------------------------------------------------
(* JavaScript helpers.                                                     *)

\* new Map()
EmptyMap == [k \in {} |-> k]

\* Map.prototype.get(k) !== undefined
MapHas(m, k) == k \in DOMAIN m

\* Mutant of MapSet: the value is stored under every key of the map.
MapSetEverywhere(m, k, v) == [x \in DOMAIN m \cup {k} |-> v]

\* Map.prototype.set(k, v)
MapSet(m, k, v) == [x \in DOMAIN m \cup {k} |-> IF x = k THEN v ELSE m[x]]

\* Mutant of SetProperty: the value is written to every property.
SetPropertyEverywhere(obj, k, v) == [x \in DOMAIN obj \cup {k} |-> v]

\* obj[k] = v : replaces the property, or creates it.
SetProperty(obj, k, v) == [x \in DOMAIN obj \cup {k} |-> IF x = k THEN v ELSE obj[x]]

\* k in obj : own properties and those inherited from Object.prototype.
InObject(k, obj) == k \in DOMAIN obj \/ k \in ObjectPrototypeKeys

\* Object.values(obj).every(v => v)
EveryValue(obj) == \A k \in DOMAIN obj : obj[k]

\* `${b}` for a boolean b
BoolString(b) == IF b THEN "true" ELSE "false"

\* args.x when x is optional: a value is truthy unless it is absent or "".
Truthy(args, field) == field \in DOMAIN args /\ args[field] # ""

\* approverRole.toUpperCase()
ToUpperCase(s) == IF s = "hr" THEN "HR" ELSE IF s = "manager" THEN "MANAGER" ELSE s

\* Mutant of AuditEntry: every entry is attributed to the system.
AuditEntryBySystem(action, actor, details) ==
  [date |-> Now, action |-> action, actor |-> "System", details |-> details]

\* record.auditTrail.push({date, action, actor, details})
AuditEntry(action, actor, details) ==
  [date |-> Now, action |-> action, actor |-> actor, details |-> details]

\* Mutant of Push: the entry is not recorded.
PushSkipped(record, entry) == record

Push(record, entry) == [record EXCEPT !.auditTrail = Append(@, entry)]

----------------------------------------------------------------------------
(* Pieces of the handlers.                                                 *)

\* The value of `result` before any tool call has returned.
NoResult == [none |-> TRUE]

\* Mutant of NotFound: a missing record is answered with an empty success.
NotFoundAsSuccess(error) == [success |-> TRUE]

\* return { success: false, error }
NotFound(error) == [success |-> FALSE, error |-> error]

ApprovalSlot(approved, approverName) ==
  [approved |-> approved, approver |-> approverName, date |-> Now]

\* `${approverRole.toUpperCase()} ${approved ? 'Approved' : 'Rejected'}`
ApprovalAction(approverRole, approved) ==
  <<ToUpperCase(approverRole), IF approved THEN "Approved" ELSE "Rejected">>

\* comments || `${approverRole} ${approved ? 'approved' : 'rejected'} <kind>`
ApprovalDetails(args, kind) ==
  IF Truthy(args, "comments")
    THEN <<args.comments>>
    ELSE <<args.approverRole,
           IF args.approved THEN "approved" ELSE "rejected", kind>>

\* Mutant of OnboardingApprovalStatus: any call short of full approval leaves
\* the record Pending Approval.
OnboardingApprovalStatusPending(record, approved) ==
  IF record.approvals.hr.approved /\ record.approvals.manager.approved
    THEN "Approved"
    ELSE "Pending Approval"

\* Mutant of OnboardingApprovalStatus: a rejection leaves the status as it is.
OnboardingApprovalStatusKept(record, approved) ==
  IF record.approvals.hr.approved /\ record.approvals.manager.approved
    THEN "Approved"
    ELSE record.status

\* approve_onboarding: the status after the slot has been written.
OnboardingApprovalStatus(record, approved) ==
  IF record.approvals.hr.approved /\ record.approvals.manager.approved
    THEN "Approved"
    ELSE IF ~approved THEN "Pending Approval" ELSE record.status

\* Mutant of OffboardingApprovalStatus: full approval closes the record.
OffboardingApprovalStatusClosing(record, approved) ==
  IF record.approvals.manager.approved /\ record.approvals.hr.approved
    THEN "Completed"
    ELSE record.status

\* approve_offboarding: the status after the slot has been written.
OffboardingApprovalStatus(record, approved) ==
  IF record.approvals.manager.approved /\ record.approvals.hr.approved
    THEN "Approved"
    ELSE record.status

\* Mutant of ApplySystems: only the first name of the list is applied.
ApplySystemsFirstOnly(flags, systems) ==
  IF systems = <<>>
    THEN flags
    ELSE IF InObject(Head(systems), flags)
           THEN SetProperty(flags, Head(systems), TRUE)
           ELSE flags

\* systems.forEach(system => { if (system in flags) flags[system] = true })
RECURSIVE ApplySystems(_, _)
ApplySystems(flags, systems) ==
  IF systems = <<>>
    THEN flags
    ELSE ApplySystems(
           IF InObject(Head(systems), flags)
             THEN SetProperty(flags, Head(systems), TRUE)
             ELSE flags,
           Tail(systems))

\* Mutant of ApplyFinance: a requested flag is flipped instead of set.
ApplyFinanceToggled(flags, first, setFirst, second, setSecond) ==
  [flags EXCEPT ![first] = IF setFirst THEN ~@ ELSE @,
                ![second] = IF setSecond THEN ~@ ELSE @]

\* Mutant of ApplyFinance: the flags are assigned the values given.
ApplyFinanceAssigned(flags, first, setFirst, second, setSecond) ==
  [flags EXCEPT ![first] = setFirst, ![second] = setSecond]

\* if (enrollPayroll) finance.payroll = true; if (enrollBenefits) finance.benefits = true
ApplyFinance(flags, first, setFirst, second, setSecond) ==
  [flags EXCEPT ![first] = IF setFirst THEN TRUE ELSE @,
                ![second] = IF setSecond THEN TRUE ELSE @]

\* Mutant of ApplyCompliance: a flag omitted from the call is cleared.
ApplyComplianceReplacing(flags, args) ==
  [f \in DOMAIN flags |-> IF f \in DOMAIN args THEN args[f] ELSE FALSE]

\* if (args.f !== undefined) compliance.f = args.f, for each of the three flags
ApplyCompliance(flags, args) ==
  [f \in DOMAIN flags |-> IF f \in DOMAIN args THEN args[f] ELSE flags[f]]

\* Mutant of OnboardingChecklist: the compliance tracker is not consulted.
OnboardingChecklistWithoutCompliance(record) ==
  [approvals |-> record.approvals.hr.approved /\ record.approvals.manager.approved,
   systemProvisioning |-> EveryValue(record.systemProvisioning),
   compliance |-> TRUE,
   financeEnrollment |-> EveryValue(record.financeEnrollment)]

\* The four preconditions computed by complete_onboarding.
OnboardingChecklist(record) ==
  [approvals |-> record.approvals.hr.approved /\ record.approvals.manager.approved,
   systemProvisioning |-> EveryValue(record.systemProvisioning),
   compliance |-> EveryValue(record.compliance),
   financeEnrollment |-> EveryValue(record.financeEnrollment)]

\* Mutant of OffboardingChecklist: the compliance and final payroll answers are
\* reported under each other's name.
OffboardingChecklistSwapped(record) ==
  [approvals |-> record.approvals.manager.approved /\ record.approvals.hr.approved,
   systemDeprovisioning |-> EveryValue(record.systemDeprovisioning),
   compliance |-> EveryValue(record.finalPayroll),
   finalPayroll |-> EveryValue(record.compliance)]

\* The four preconditions computed by complete_offboarding.
OffboardingChecklist(record) ==
  [approvals |-> record.approvals.manager.approved /\ record.approvals.hr.approved,
   systemDeprovisioning |-> EveryValue(record.systemDeprovisioning),
   compliance |-> EveryValue(record.compliance),
   finalPayroll |-> EveryValue(record.finalPayroll)]

\* Mutant of RequirementsMet: only the approvals gate the completion.
RequirementsMetByApprovals(checklist) == checklist.approvals

\* if (!allSystems || !allCompliant || !finance || !allApproved) return failure
RequirementsMet(checklist) == EveryValue(checklist)

----------------------------------------------------------------------------
(* Onboarding handlers of executeTool.                                     *)

\* const employee: Employee = { id: employeeId, name: args.name, ... }
Employee(employeeId, args) ==
  [f \in (DOMAIN args \ {"initiatedBy"}) \cup {"id"} |->
     IF f = "id" THEN employeeId ELSE args[f]]

NewOnboardingRecord(employeeId, args) ==
  [employeeId |-> employeeId,
   employee |-> Employee(employeeId, args),
   status |-> "Initiated",
   initiatedBy |-> args.initiatedBy,
   initiatedDate |-> Now,
   approvals |-> [hr |-> [approved |-> FALSE], manager |-> [approved |-> FALSE]],
   systemProvisioning |->
     [hrms |-> FALSE, email |-> FALSE, network |-> FALSE, projectTools |-> FALSE],
   compliance |-> [ndaSigned |-> FALSE, idVerified |-> FALSE, backgroundCheck |-> FALSE],
   financeEnrollment |-> [payroll |-> FALSE, benefits |-> FALSE],
   auditTrail |->
     << AuditEntry(<<"Onboarding Initiated">>, args.initiatedBy,
                   <<"Onboarding started for", args.name>>) >>]

\* case 'initiate_onboarding': employeeId is generateEmployeeId(), a value built
\* from Date.now() and Math.random() that the caller does not choose.
InitiateOnboarding(employeeId, args) ==
  LET record == NewOnboardingRecord(employeeId, args) IN
  /\ onboardingRecords' = MapSet(onboardingRecords, employeeId, record)
  /\ result' = [success |-> TRUE, employeeId |-> employeeId, status |-> "Initiated",
                message |-> <<"Onboarding process initiated for", args.name>>,
                nextSteps |-> <<"HR Approval", "Manager Approval">>,
                employee |-> record.employee]
  /\ UNCHANGED offboardingRecords

\* case 'approve_onboarding'
ApproveOnboarding(args) ==
  LET employeeId == args.employeeId IN
  IF ~MapHas(onboardingRecords, employeeId)
    THEN /\ result' = NotFound("Employee not found")
         /\ UNCHANGED <<onboardingRecords, offboardingRecords>>
    ELSE
      LET record == onboardingRecords[employeeId]
          slotted == [record EXCEPT !.approvals =
                        SetProperty(@, args.approverRole,
                                    ApprovalSlot(args.approved, args.approverName))]
          logged == Push(slotted,
                         AuditEntry(ApprovalAction(args.approverRole, args.approved),
                                    args.approverName,
                                    ApprovalDetails(args, "onboarding")))
          final == [logged EXCEPT !.status =
                      OnboardingApprovalStatus(logged, args.approved)]
      IN
      /\ onboardingRecords' = MapSet(onboardingRecords, employeeId, final)
      /\ result' = [success |-> TRUE, employeeId |-> employeeId,
                    message |-> <<ToUpperCase(args.approverRole),
                                  IF args.approved THEN "approved" ELSE "rejected",
                                  "onboarding for", record.employee.name>>,
                    approverRole |-> args.approverRole,
                    approved |-> args.approved, status |-> final.status,
                    nextSteps |->
                      IF final.status = "Approved"
                        THEN <<"System Provisioning", "Compliance Checks",
                               "Finance Enrollment">>
                        ELSE <<"Pending other approvals">>]
      /\ UNCHANGED offboardingRecords

\* case 'provision_systems'
ProvisionSystems(args) ==
  LET employeeId == args.employeeId IN
  IF ~MapHas(onboardingRecords, employeeId)
    THEN /\ result' = NotFound("Employee not found")
         /\ UNCHANGED <<onboardingRecords, offboardingRecords>>
    ELSE
      LET record == onboardingRecords[employeeId]
          applied == [record EXCEPT !.systemProvisioning =
                        ApplySystems(@, args.systems)]
          logged == Push(applied,
                         AuditEntry(<<"Systems Provisioned">>, "IT System",
                                    <<"Provisioned:">> \o args.systems))
          final == [logged EXCEPT !.status = "In Progress"]
      IN
      /\ onboardingRecords' = MapSet(onboardingRecords, employeeId, final)
      /\ result' = [success |-> TRUE, employeeId |-> employeeId,
                    message |-> <<"Systems provisioned for", record.employee.name>>,
                    provisionedSystems |-> args.systems,
                    systemStatus |-> final.systemProvisioning]
      /\ UNCHANGED offboardingRecords

\* case 'enroll_benefits'
EnrollBenefits(args) ==
  LET employeeId == args.employeeId IN
  IF ~MapHas(onboardingRecords, employeeId)
    THEN /\ result' = NotFound("Employee not found")
         /\ UNCHANGED <<onboardingRecords, offboardingRecords>>
    ELSE
      LET record == onboardingRecords[employeeId]
          applied == [record EXCEPT !.financeEnrollment =
                        ApplyFinance(@, "payroll", args.enrollPayroll,
                                     "benefits", args.enrollBenefits)]
          final == Push(applied,
                        AuditEntry(<<"Finance Enrollment">>, "Finance System",
                                   <<"Payroll:", BoolString(args.enrollPayroll),
                                     "Benefits:", BoolString(args.enrollBenefits)>>))
      IN
      /\ onboardingRecords' = MapSet(onboardingRecords, employeeId, final)
      /\ result' = [success |-> TRUE, employeeId |-> employeeId,
                    message |-> <<"Finance enrollment completed for",
                                  record.employee.name>>,
                    financeEnrollment |-> final.financeEnrollment]
      /\ UNCHANGED offboardingRecords

\* case 'check_onboarding_compliance'
CheckOnboardingCompliance(args) ==
  LET employeeId == args.employeeId IN
  IF ~MapHas(onboardingRecords, employeeId)
    THEN /\ result' = NotFound("Employee not found")
         /\ UNCHANGED <<onboardingRecords, offboardingRecords>>
    ELSE
      LET record == onboardingRecords[employeeId]
          applied == [record EXCEPT !.compliance = ApplyCompliance(@, args)]
          c == applied.compliance
          final == Push(applied,
                        AuditEntry(<<"Compliance Check">>, "Compliance System",
                                   <<"NDA:", BoolString(c.ndaSigned),
                                     "ID:", BoolString(c.idVerified),
                                     "Background:", BoolString(c.backgroundCheck)>>))
      IN
      /\ onboardingRecords' = MapSet(onboardingRecords, employeeId, final)
      /\ result' = [success |-> TRUE, employeeId |-> employeeId, compliance |-> c,
                    allCompliant |->
                      c.ndaSigned /\ c.idVerified /\ c.backgroundCheck,
                    message |->
                      IF c.ndaSigned /\ c.idVerified /\ c.backgroundCheck
                        THEN <<"All compliance checks passed">>
                        ELSE <<"Compliance checks incomplete">>]
      /\ UNCHANGED offboardingRecords

\* Mutant of CompleteOnboarding: the completion is also refused unless the
\* record's status is In Progress.
CompleteOnboardingFromInProgress(args) ==
  LET employeeId == args.employeeId IN
  IF ~MapHas(onboardingRecords, employeeId)
    THEN /\ result' = NotFound("Employee not found")
         /\ UNCHANGED <<onboardingRecords, offboardingRecords>>
    ELSE
      LET record == onboardingRecords[employeeId]
          checklist == OnboardingChecklist(record)
      IN
      IF ~RequirementsMet(checklist) \/ record.status # "In Progress"
        THEN /\ result' = [success |-> FALSE,
                           error |-> "Cannot complete onboarding - requirements not met",
                           checklist |-> checklist]
             /\ UNCHANGED <<onboardingRecords, offboardingRecords>>
        ELSE
          LET final == Push([record EXCEPT !.status = "Completed"],
                            AuditEntry(<<"Onboarding Completed">>, args.completedBy,
                                       <<"Onboarding process completed for",
                                         record.employee.name>>))
          IN
          /\ onboardingRecords' = MapSet(onboardingRecords, employeeId, final)
          /\ result' = [success |-> TRUE, employeeId |-> employeeId, status |-> "Completed",
                        message |-> <<"Onboarding completed successfully for",
                                      record.employee.name>>,
                        completionDate |-> Now,
                        notifications |->
                          <<<<"Email sent to", record.employee.email>>,
                            <<"Manager", record.employee.manager, "notified">>,
                            <<"HR team notified">>>>]
          /\ UNCHANGED offboardingRecords

\* case 'complete_onboarding'
CompleteOnboarding(args) ==
  LET employeeId == args.employeeId IN
  IF ~MapHas(onboardingRecords, employeeId)
    THEN /\ result' = NotFound("Employee not found")
         /\ UNCHANGED <<onboardingRecords, offboardingRecords>>
    ELSE
      LET record == onboardingRecords[employeeId]
          checklist == OnboardingChecklist(record)
      IN
      IF ~RequirementsMet(checklist)
        THEN /\ result' = [success |-> FALSE,
                           error |-> "Cannot complete onboarding - requirements not met",
                           checklist |-> checklist]
             /\ UNCHANGED <<onboardingRecords, offboardingRecords>>
        ELSE
          LET final == Push([record EXCEPT !.status = "Completed"],
                            AuditEntry(<<"Onboarding Completed">>, args.completedBy,
                                       <<"Onboarding process completed for",
                                         record.employee.name>>))
          IN
          /\ onboardingRecords' = MapSet(onboardingRecords, employeeId, final)
          /\ result' = [success |-> TRUE, employeeId |-> employeeId, status |-> "Completed",
                        message |-> <<"Onboarding completed successfully for",
                                      record.employee.name>>,
                        completionDate |-> Now,
                        notifications |->
                          <<<<"Email sent to", record.employee.email>>,
                            <<"Manager", record.employee.manager, "notified">>,
                            <<"HR team notified">>>>]
          /\ UNCHANGED offboardingRecords

----------------------------------------------------------------------------
(* Offboarding handlers of executeTool.                                    *)

\* Mutant of NewOffboardingRecord: the record is seeded with the manager's
\* approval by the initiator.
NewOffboardingRecordPreapproved(args) ==
  [employeeId |-> args.employeeId,
   employeeName |-> args.employeeName,
   lastWorkingDay |-> args.lastWorkingDay,
   department |-> args.department,
   reason |-> args.reason,
   manager |-> args.manager,
   status |-> "Initiated",
   initiatedBy |-> args.initiatedBy,
   initiatedDate |-> Now,
   approvals |-> [manager |-> ApprovalSlot(TRUE, args.initiatedBy),
                  hr |-> [approved |-> FALSE]],
   systemDeprovisioning |->
     [hrms |-> FALSE, email |-> FALSE, network |-> FALSE, projectTools |-> FALSE],
   compliance |-> [exitFormSubmitted |-> FALSE, assetsReturned |-> FALSE,
                   clearanceCertificate |-> FALSE],
   finalPayroll |-> [processed |-> FALSE, benefitsTerminated |-> FALSE],
   auditTrail |->
     << AuditEntry(<<"Offboarding Initiated">>, args.initiatedBy,
                   <<"Offboarding started for", args.employeeName,
                     "Reason:", args.reason>>) >>]

\* const record: OffboardingRecord = { ... }
NewOffboardingRecord(args) ==
  [employeeId |-> args.employeeId,
   employeeName |-> args.employeeName,
   lastWorkingDay |-> args.lastWorkingDay,
   department |-> args.department,
   reason |-> args.reason,
   manager |-> args.manager,
   status |-> "Initiated",
   initiatedBy |-> args.initiatedBy,
   initiatedDate |-> Now,
   approvals |-> [manager |-> [approved |-> FALSE], hr |-> [approved |-> FALSE]],
   systemDeprovisioning |->
     [hrms |-> FALSE, email |-> FALSE, network |-> FALSE, projectTools |-> FALSE],
   compliance |-> [exitFormSubmitted |-> FALSE, assetsReturned |-> FALSE,
                   clearanceCertificate |-> FALSE],
   finalPayroll |-> [processed |-> FALSE, benefitsTerminated |-> FALSE],
   auditTrail |->
     << AuditEntry(<<"Offboarding Initiated">>, args.initiatedBy,
                   <<"Offboarding started for", args.employeeName,
                     "Reason:", args.reason>>) >>]

\* case 'initiate_offboarding': the caller supplies employeeId.
InitiateOffboarding(args) ==
  LET employeeId == args.employeeId
      record == NewOffboardingRecord(args)
  IN
  /\ offboardingRecords' = MapSet(offboardingRecords, employeeId, record)
  /\ result' = [success |-> TRUE, employeeId |-> employeeId, status |-> "Initiated",
                message |-> <<"Offboarding process initiated for", args.employeeName>>,
                lastWorkingDay |-> args.lastWorkingDay,
                nextSteps |-> <<"Manager Approval", "HR Approval">>]
  /\ UNCHANGED onboardingRecords

\* case 'approve_offboarding'
ApproveOffboarding(args) ==
  LET employeeId == args.employeeId IN
  IF ~MapHas(offboardingRecords, employeeId)
    THEN /\ result' = NotFound("Offboarding record not found")
         /\ UNCHANGED <<onboardingRecords, offboardingRecords>>
    ELSE
      LET record == offboardingRecords[employeeId]
          slotted == [record EXCEPT !.approvals =
                        SetProperty(@, args.approverRole,
                                    ApprovalSlot(args.approved, args.approverName))]
          logged == Push(slotted,
                         AuditEntry(ApprovalAction(args.approverRole, args.approved),
                                    args.approverName,
                                    ApprovalDetails(args, "offboarding")))
          final == [logged EXCEPT !.status =
                      OffboardingApprovalStatus(logged, args.approved)]
      IN
      /\ offboardingRecords' = MapSet(offboardingRecords, employeeId, final)
      /\ result' = [success |-> TRUE, employeeId |-> employeeId,
                    message |-> <<ToUpperCase(args.approverRole),
                                  IF args.approved THEN "approved" ELSE "rejected",
                                  "offboarding for", record.employeeName>>,
                    approverRole |-> args.approverRole,
                    approved |-> args.approved, status |-> final.status,
                    nextSteps |->
                      IF final.status = "Approved"
                        THEN <<"System Deprovisioning", "Compliance Checks",
                               "Final Payroll">>
                        ELSE <<"Pending other approvals">>]
      /\ UNCHANGED onboardingRecords

\* case 'deprovision_systems'
DeprovisionSystems(args) ==
  LET employeeId == args.employeeId IN
  IF ~MapHas(offboardingRecords, employeeId)
    THEN /\ result' = NotFound("Offboarding record not found")
         /\ UNCHANGED <<onboardingRecords, offboardingRecords>>
    ELSE
      LET record == offboardingRecords[employeeId]
          applied == [record EXCEPT !.systemDeprovisioning =
                        ApplySystems(@, args.systems)]
          logged == Push(applied,
                         AuditEntry(<<"Systems Deprovisioned">>, "IT System",
                                    <<"Deprovisioned:">> \o args.systems))
          final == [logged EXCEPT !.status = "In Progress"]
      IN
      /\ offboardingRecords' = MapSet(offboardingRecords, employeeId, final)
      /\ result' = [success |-> TRUE, employeeId |-> employeeId,
                    message |-> <<"Systems deprovisioned for", record.employeeName>>,
                    deprovisionedSystems |-> args.systems,
                    systemStatus |-> final.systemDeprovisioning]
      /\ UNCHANGED onboardingRecords

\* case 'process_final_payroll'
ProcessFinalPayroll(args) ==
  LET employeeId == args.employeeId IN
  IF ~MapHas(offboardingRecords, employeeId)
    THEN /\ result' = NotFound("Offboarding record not found")
         /\ UNCHANGED <<onboardingRecords, offboardingRecords>>
    ELSE
      LET record == offboardingRecords[employeeId]
          applied == [record EXCEPT !.finalPayroll =
                        ApplyFinance(@, "processed", args.processFinalPayroll,
                                     "benefitsTerminated", args.terminateBenefits)]
          final == Push(applied,
                        AuditEntry(<<"Final Payroll Processing">>, "Finance System",
                                   <<"Final Payroll:",
                                     BoolString(args.processFinalPayroll),
                                     "Benefits Terminated:",
                                     BoolString(args.terminateBenefits)>>))
      IN
      /\ offboardingRecords' = MapSet(offboardingRecords, employeeId, final)
      /\ result' = [success |-> TRUE, employeeId |-> employeeId,
                    message |-> <<"Final payroll processing completed for",
                                  record.employeeName>>,
                    finalPayroll |-> final.finalPayroll]
      /\ UNCHANGED onboardingRecords

\* case 'check_offboarding_compliance'
CheckOffboardingCompliance(args) ==
  LET employeeId == args.employeeId IN
  IF ~MapHas(offboardingRecords, employeeId)
    THEN /\ result' = NotFound("Offboarding record not found")
         /\ UNCHANGED <<onboardingRecords, offboardingRecords>>
    ELSE
      LET record == offboardingRecords[employeeId]
          applied == [record EXCEPT !.compliance = ApplyCompliance(@, args)]
          c == applied.compliance
          final == Push(applied,
                        AuditEntry(<<"Compliance Check">>, "Compliance System",
                                   <<"Exit Form:", BoolString(c.exitFormSubmitted),
                                     "Assets:", BoolString(c.assetsReturned),
                                     "Clearance:", BoolString(c.clearanceCertificate)>>))
          allCompliant ==
            c.exitFormSubmitted /\ c.assetsReturned /\ c.clearanceCertificate
      IN
      /\ offboardingRecords' = MapSet(offboardingRecords, employeeId, final)
      /\ result' = [success |-> TRUE, employeeId |-> employeeId, compliance |-> c,
                    allCompliant |-> allCompliant,
                    message |->
                      IF allCompliant
                        THEN <<"All compliance checks passed">>
                        ELSE <<"Compliance checks incomplete">>]
      /\ UNCHANGED onboardingRecords

\* case 'complete_offboarding'
CompleteOffboarding(args) ==
  LET employeeId == args.employeeId IN
  IF ~MapHas(offboardingRecords, employeeId)
    THEN /\ result' = NotFound("Offboarding record not found")
         /\ UNCHANGED <<onboardingRecords, offboardingRecords>>
    ELSE
      LET record == offboardingRecords[employeeId]
          checklist == OffboardingChecklist(record)
      IN
      IF ~RequirementsMet(checklist)
        THEN /\ result' = [success |-> FALSE,
                           error |-> "Cannot complete offboarding - requirements not met",
                           checklist |-> checklist]
             /\ UNCHANGED <<onboardingRecords, offboardingRecords>>
        ELSE
          LET final == Push([record EXCEPT !.status = "Completed"],
                            AuditEntry(<<"Offboarding Completed">>, args.completedBy,
                                       <<"Offboarding process completed for",
                                         record.employeeName>>))
          IN
          /\ offboardingRecords' = MapSet(offboardingRecords, employeeId, final)
          /\ result' = [success |-> TRUE, employeeId |-> employeeId,
                        status |-> "Completed",
                        message |-> <<"Offboarding completed successfully for",
                                      record.employeeName>>,
                        completionDate |-> Now,
                        notifications |->
                          <<<<"Employee notified">>,
                            <<"Manager", record.manager, "notified">>,
                            <<"HR team notified">>>>]
          /\ UNCHANGED onboardingRecords

----------------------------------------------------------------------------
(* Query handlers of executeTool.                                          *)

\* if (!employee.f) missingFields.push(f), in the order of the code.
RequiredEmployeeFields ==
  <<"name", "email", "dateOfJoining", "department", "designation", "manager",
    "workLocation", "contactPhone", "employmentType">>

MissingFields(employee) ==
  SelectSeq(RequiredEmployeeFields, LAMBDA f : ~Truthy(employee, f))

\* Mutant of ValidateOnboardingData: the validation is logged on the record.
ValidateOnboardingDataLogged(args) ==
  LET employeeId == args.employeeId IN
  IF ~MapHas(onboardingRecords, employeeId)
    THEN /\ result' = NotFound("Employee not found")
         /\ UNCHANGED <<onboardingRecords, offboardingRecords>>
    ELSE
      LET record == onboardingRecords[employeeId]
          missingFields == MissingFields(record.employee)
      IN
      /\ onboardingRecords' =
           MapSet(onboardingRecords, employeeId,
                  Push(record, AuditEntry(<<"Data Validated">>, "System", <<>>)))
      /\ result' = [success |-> TRUE, employeeId |-> employeeId,
                    isValid |-> Len(missingFields) = 0,
                    missingFields |-> missingFields,
                    message |-> IF Len(missingFields) = 0
                                  THEN <<"All required fields are complete">>
                                  ELSE <<"Missing required fields">>]
      /\ UNCHANGED offboardingRecords

\* case 'validate_onboarding_data'
ValidateOnboardingData(args) ==
  LET employeeId == args.employeeId IN
  /\ result' =
       IF ~MapHas(onboardingRecords, employeeId)
         THEN NotFound("Employee not found")
         ELSE LET missingFields == MissingFields(onboardingRecords[employeeId].employee)
              IN [success |-> TRUE, employeeId |-> employeeId,
                  isValid |-> Len(missingFields) = 0,
                  missingFields |-> missingFields,
                  message |-> IF Len(missingFields) = 0
                                THEN <<"All required fields are complete">>
                                ELSE <<"Missing required fields">>]
  /\ UNCHANGED <<onboardingRecords, offboardingRecords>>

\* case 'get_onboarding_status'
GetOnboardingStatus(args) ==
  LET employeeId == args.employeeId IN
  /\ result' =
       IF ~MapHas(onboardingRecords, employeeId)
         THEN NotFound("Employee not found")
         ELSE LET record == onboardingRecords[employeeId]
              IN [success |-> TRUE, employeeId |-> employeeId,
                  employee |-> record.employee, status |-> record.status,
                  approvals |-> record.approvals,
                  systemProvisioning |-> record.systemProvisioning,
                  compliance |-> record.compliance,
                  financeEnrollment |-> record.financeEnrollment,
                  auditTrail |-> record.auditTrail]
  /\ UNCHANGED <<onboardingRecords, offboardingRecords>>

\* case 'get_offboarding_status'
GetOffboardingStatus(args) ==
  LET employeeId == args.employeeId IN
  /\ result' =
       IF ~MapHas(offboardingRecords, employeeId)
         THEN NotFound("Offboarding record not found")
         ELSE LET record == offboardingRecords[employeeId]
              IN [success |-> TRUE, employeeId |-> employeeId,
                  employeeName |-> record.employeeName, status |-> record.status,
                  lastWorkingDay |-> record.lastWorkingDay,
                  approvals |-> record.approvals,
                  systemDeprovisioning |-> record.systemDeprovisioning,
                  compliance |-> record.compliance,
                  finalPayroll |-> record.finalPayroll,
                  auditTrail |-> record.auditTrail]
  /\ UNCHANGED <<onboardingRecords, offboardingRecords>>

\* The entries list_pending_approvals pushes for one store.  The arrays are
\* modelled as sets: the order of Map.forEach is not tracked.
PendingOnboarding(type) ==
  IF type \in {"onboarding", "all"}
    THEN { [employeeId |-> onboardingRecords[k].employeeId,
            employeeName |-> onboardingRecords[k].employee.name,
            type |-> "onboarding",
            status |-> onboardingRecords[k].status,
            pendingApprovals |->
              [hr |-> ~onboardingRecords[k].approvals.hr.approved,
               manager |-> ~onboardingRecords[k].approvals.manager.approved]] :
           k \in { j \in DOMAIN onboardingRecords :
                     \/ ~onboardingRecords[j].approvals.hr.approved
                     \/ ~onboardingRecords[j].approvals.manager.approved } }
    ELSE {}

\* Mutant of PendingOffboarding: only records waiting for hr are listed.
PendingOffboardingByHr(type) ==
  IF type \in {"offboarding", "all"}
    THEN { [employeeId |-> offboardingRecords[k].employeeId,
            employeeName |-> offboardingRecords[k].employeeName,
            type |-> "offboarding",
            status |-> offboardingRecords[k].status,
            lastWorkingDay |-> offboardingRecords[k].lastWorkingDay,
            pendingApprovals |->
              [manager |-> ~offboardingRecords[k].approvals.manager.approved,
               hr |-> ~offboardingRecords[k].approvals.hr.approved]] :
           k \in { j \in DOMAIN offboardingRecords :
                     ~offboardingRecords[j].approvals.hr.approved } }
    ELSE {}

PendingOffboarding(type) ==
  IF type \in {"offboarding", "all"}
    THEN { [employeeId |-> offboardingRecords[k].employeeId,
            employeeName |-> offboardingRecords[k].employeeName,
            type |-> "offboarding",
            status |-> offboardingRecords[k].status,
            lastWorkingDay |-> offboardingRecords[k].lastWorkingDay,
            pendingApprovals |->
              [manager |-> ~offboardingRecords[k].approvals.manager.approved,
               hr |-> ~offboardingRecords[k].approvals.hr.approved]] :
           k \in { j \in DOMAIN offboardingRecords :
                     \/ ~offboardingRecords[j].approvals.manager.approved
                     \/ ~offboardingRecords[j].approvals.hr.approved } }
    ELSE {}

\* case 'list_pending_approvals'
ListPendingApprovals(args) ==
  /\ result' = [success |-> TRUE,
                pendingOnboarding |-> PendingOnboarding(args.type),
                pendingOffboarding |-> PendingOffboarding(args.type),
                totalPending |-> Cardinality(PendingOnboarding(args.type))
                                 + Cardinality(PendingOffboarding(args.type))]
  /\ UNCHANGED <<onboardingRecords, offboardingRecords>>

\* Mutant of GetEmployeeDetails: the offboarding store is looked up first.
GetEmployeeDetailsOffboardingFirst(args) ==
  LET employeeId == args.employeeId IN
  /\ result' =
       IF MapHas(offboardingRecords, employeeId)
         THEN [success |-> TRUE, source |-> "offboarding",
               employeeId |-> offboardingRecords[employeeId].employeeId,
               employeeName |-> offboardingRecords[employeeId].employeeName,
               department |-> offboardingRecords[employeeId].department,
               lastWorkingDay |-> offboardingRecords[employeeId].lastWorkingDay,
               status |-> offboardingRecords[employeeId].status]
         ELSE IF MapHas(onboardingRecords, employeeId)
           THEN [success |-> TRUE, source |-> "onboarding",
                 employee |-> onboardingRecords[employeeId].employee,
                 status |-> onboardingRecords[employeeId].status]
           ELSE NotFound("Employee not found")
  /\ UNCHANGED <<onboardingRecords, offboardingRecords>>

\* case 'get_employee_details'
GetEmployeeDetails(args) ==
  LET employeeId == args.employeeId IN
  /\ result' =
       IF MapHas(onboardingRecords, employeeId)
         THEN [success |-> TRUE, source |-> "onboarding",
               employee |-> onboardingRecords[employeeId].employee,
               status |-> onboardingRecords[employeeId].status]
         ELSE IF MapHas(offboardingRecords, employeeId)
           THEN [success |-> TRUE, source |-> "offboarding",
                 employeeId |-> offboardingRecords[employeeId].employeeId,
                 employeeName |-> offboardingRecords[employeeId].employeeName,
                 department |-> offboardingRecords[employeeId].department,
                 lastWorkingDay |-> offboardingRecords[employeeId].lastWorkingDay,
                 status |-> offboardingRecords[employeeId].status]
           ELSE NotFound("Employee not found")
  /\ UNCHANGED <<onboardingRecords, offboardingRecords>>

----------------------------------------------------------------------------
(* Arguments of the tool calls.                                            *)

Approvers == {"Ann"}

Comments == {"ok"}

ApproveArgs(ids) ==
  [employeeId : ids, approverRole : Roles, approverName : Approvers,
   approved : BOOLEAN]
  \cup
  [employeeId : ids, approverRole : Roles, approverName : Approvers,
   approved : BOOLEAN, comments : Comments]

DecisionArgs(ids, decisions) ==
  [employeeId : ids, approverRole : Roles, approverName : Approvers,
   approved : decisions]

SystemsArgs(ids, lists) == [employeeId : ids, systems : lists]

EnrollArgs(ids, choices) ==
  [employeeId : ids, enrollPayroll : choices, enrollBenefits : choices]

PayrollArgs(ids, choices) ==
  [employeeId : ids, processFinalPayroll : choices, terminateBenefits : choices]

ComplianceArgs(ids, flagChoices) ==
  { [k \in DOMAIN flags \cup {"employeeId"} |->
       IF k = "employeeId" THEN id ELSE flags[k]] :
    id \in ids, flags \in flagChoices }

OnboardingComplianceFlags == {"ndaSigned", "idVerified", "backgroundCheck"}

OffboardingComplianceFlags ==
  {"exitFormSubmitted", "assetsReturned", "clearanceCertificate"}

\* completedBy differs from the initiatedBy of the employees above.
CompleteArgs(ids) == [employeeId : ids, completedBy : {"HR2"}]

InitiateOffboardingArgs(ids) ==
  { [k \in DOMAIN e \cup {"employeeId"} |->
       IF k = "employeeId" THEN id ELSE e[k]] :
    id \in ids, e \in OffboardingEmployees }

IdArgs(ids) == [employeeId : ids]

ListArgs == [type : {"onboarding", "offboarding", "all"}]


----------------------------------------------------------------------------
(* The purchase-order approval routes (src/src/index.ts).                  *)

\* The state of the workflow engine and of its router.
hrVars == <<onboardingRecords, offboardingRecords, result, requests>>

\* JSON null: a value that no approver name equals.
Null == "(null)"

\* const purchaseOrders: PurchaseOrder[] = [...]
InitialPurchaseOrders ==
  << [id |-> "PO-1001", amount |-> 5000, region |-> "US",
      requester |-> "Alice Smith", status |-> "Pending",
      currentApprover |-> "CPM", details |-> "Office Supplies for Q4",
      history |-> <<>>],
     [id |-> "PO-1002", amount |-> 15000, region |-> "EMEA",
      requester |-> "Bob Jones", status |-> "Pending",
      currentApprover |-> "CPH", details |-> "New Server Hardware",
      history |-> <<>>],
     [id |-> "PO-1003", amount |-> 75000, region |-> "APAC",
      requester |-> "Charlie Kim", status |-> "Pending",
      currentApprover |-> "Geo Controller",
      details |-> "Consulting Services Contract", history |-> <<>>] >>

\* getApprovalMatrix(region, amount)
getApprovalMatrix(region, amount) ==
  IF amount < 10000 THEN <<"CPM">>
  ELSE IF amount < 50000 THEN <<"CPM", "CPH">>
  ELSE IF amount < 100000 THEN <<"CPM", "CPH", "Geo Controller">>
  ELSE <<"CPM", "CPH", "Geo Controller", "Corporate Controller">>

\* Array.prototype.indexOf, counted from 1: 0 where JavaScript answers -1.
IndexOf(array, x) ==
  IF \E i \in DOMAIN array : array[i] = x
    THEN CHOOSE i \in DOMAIN array :
           array[i] = x /\ \A j \in 1..(i - 1) : array[j] # x
    ELSE 0

\* purchaseOrders.find((p) => p.id === poId), as an index: 0 when undefined.
FindPo(poId) ==
  IF \E i \in DOMAIN purchaseOrders : purchaseOrders[i].id = poId
    THEN CHOOSE i \in DOMAIN purchaseOrders :
           /\ purchaseOrders[i].id = poId
           /\ \A j \in 1..(i - 1) : purchaseOrders[j].id # poId
    ELSE 0

PoNotFound == [status |-> 404, body |-> [error |-> "Purchase Order not found"]]

\* A history entry; comments is left out when it is undefined.
HistoryEntry(action, actor, body) ==
  IF "comments" \in DOMAIN body
    THEN [action |-> action, actor |-> actor, date |-> Now,
          comments |-> body.comments]
    ELSE [action |-> action, actor |-> actor, date |-> Now]

\* GET /po/notifications
PoNotifications ==
  LET pending == SelectSeq(purchaseOrders, LAMBDA po : po.status = "Pending") IN
  /\ response' =
       [status |-> 200,
        body |-> [count |-> Len(pending),
                  notifications |->
                    [i \in DOMAIN pending |->
                       [message |-> <<"PO", pending[i].id, "requires approval">>,
                        poId |-> pending[i].id, amount |-> pending[i].amount,
                        requester |-> pending[i].requester,
                        currentApprover |-> pending[i].currentApprover]]]]
  /\ UNCHANGED <<purchaseOrders, hrVars, mcpVars>>

\* POST /po/approve
PoApprove(body) ==
  LET i == FindPo(body.poId) IN
  /\ IF i = 0
       THEN /\ response' = PoNotFound
            /\ UNCHANGED purchaseOrders
       ELSE
         LET po == purchaseOrders[i] IN
         IF po.status # "Pending"
           THEN /\ response' = [status |-> 400,
                                body |-> [error |-> <<"PO is already", po.status>>]]
                /\ UNCHANGED purchaseOrders
           ELSE
             LET matrix == getApprovalMatrix(po.region, po.amount)
                 currentLevelIndex == IndexOf(matrix, po.currentApprover)
                 forwarded == currentLevelIndex # 0 /\ currentLevelIndex < Len(matrix)
                 nextApprover == IF forwarded THEN matrix[currentLevelIndex + 1] ELSE Null
                 decided == IF forwarded
                              THEN [po EXCEPT !.currentApprover = nextApprover]
                              ELSE [po EXCEPT !.status = "Approved",
                                              !.currentApprover = "None"]
                 final == [decided EXCEPT !.history =
                             Append(@, HistoryEntry("Approve", body.approverId, body))]
             IN
             /\ purchaseOrders' = [purchaseOrders EXCEPT ![i] = final]
             /\ response' =
                  [status |-> 200,
                   body |-> [message |->
                               IF forwarded
                                 THEN <<"Approved by", body.approverId,
                                        "Forwarded to", nextApprover>>
                                 ELSE <<"PO", po.id, "fully approved.">>,
                             poId |-> po.id, status |-> final.status,
                             nextApprover |-> nextApprover]]
  /\ UNCHANGED <<hrVars, mcpVars>>

\* POST /po/reject
PoReject(body) ==
  /\ IF "comments" \notin DOMAIN body
       THEN /\ response' = [status |-> 400,
                            body |-> [error |-> "Comments are required for rejection"]]
            /\ UNCHANGED purchaseOrders
       ELSE
         LET i == FindPo(body.poId) IN
         IF i = 0
           THEN /\ response' = PoNotFound
                /\ UNCHANGED purchaseOrders
           ELSE
             LET po == purchaseOrders[i]
                 final == [po EXCEPT !.status = "Rejected",
                                     !.currentApprover = "None",
                                     !.history =
                                       Append(@, HistoryEntry("Reject", body.approverId, body))]
             IN
             /\ purchaseOrders' = [purchaseOrders EXCEPT ![i] = final]
             /\ response' = [status |-> 200,
                             body |-> [message |-> <<"PO", po.id, "has been rejected.">>,
                                       poId |-> po.id, status |-> "Rejected"]]
  /\ UNCHANGED <<hrVars, mcpVars>>

\* POST /po/reassign
PoReassign(body) ==
  LET i == FindPo(body.poId) IN
  /\ IF i = 0
       THEN /\ response' = PoNotFound
            /\ UNCHANGED purchaseOrders
       ELSE
         LET po == purchaseOrders[i]
             oldApprover == po.currentApprover
             actor == IF "currentApproverId" \in DOMAIN body
                        THEN body.currentApproverId ELSE "System"
             final == [po EXCEPT !.currentApprover = body.newApproverId,
                                 !.history =
                                   Append(@, [action |-> "Reassign", actor |-> actor,
                                              date |-> Now,
                                              comments |-> <<"Reassigned from", oldApprover,
                                                             "to", body.newApproverId>>])]
         IN
         /\ purchaseOrders' = [purchaseOrders EXCEPT ![i] = final]
         /\ response' = [status |-> 200,
                         body |-> [message |-> <<"PO", po.id, "reassigned to",
                                                 body.newApproverId>>,
                                   poId |-> po.id, previousApprover |-> oldApprover,
                                   currentApprover |-> body.newApproverId]]
  /\ UNCHANGED <<hrVars, mcpVars>>

\* Request bodies: the three orders and an id that names none; an approver of
\* every matrix, one of some matrices and a person of none.
PoIds == {"PO-1001", "PO-1002", "PO-1003", "PO-9999"}

DecisionBodies ==
  [poId : PoIds, approverId : {"u1"}]
  \cup [poId : PoIds, approverId : {"u1"}, comments : {"see ticket"}]

ReassignBodies ==
  [poId : PoIds, newApproverId : {"CPM", "CPH", "Dana"}]
  \cup [poId : PoIds, newApproverId : {"CPM", "CPH", "Dana"},
        currentApproverId : {"u1"}]


----------------------------------------------------------------------------
(* The Streamable HTTP router (src/src/mcp-http.ts).                       *)

\* new StreamableHTTPServerTransport({ sessionIdGenerator: undefined, ... }):
\* with no generator the transport has no session id, its sessionId property
\* is undefined.
NewTransport == [closed |-> FALSE]

\* transport.sessionId is truthy
HasSessionId(transport) == "sessionId" \in DOMAIN transport

\* req.headers['mcp-session-id'] is truthy
HasSessionHeader(headers) == "mcp-session-id" \in DOMAIN headers

\* transports[sessionId] is truthy: transports is a plain object, so the
\* lookup also finds the properties inherited from Object.prototype.
Registered(sessionId) ==
  MapHas(transports, sessionId) \/ sessionId \in ObjectPrototypeKeys

\* delete transports[sessionId]
MapDelete(m, k) == [x \in DOMAIN m \ {k} |-> m[x]]

\* router.all('/'): a request with the given headers.  handledBy is the
\* number of the transport whose handleRequest ran, 0 when none did (the
\* value looked up is an inherited property, not a transport, and calling
\* its handleRequest throws).
McpRequest(headers) ==
  /\ IF HasSessionHeader(headers) /\ Registered(headers["mcp-session-id"])
       THEN /\ handledBy' =
                 IF MapHas(transports, headers["mcp-session-id"])
                   THEN transports[headers["mcp-session-id"]]
                   ELSE 0
            /\ UNCHANGED <<transports, created, connections>>
       ELSE
         LET transport == NewTransport
             n == Len(created) + 1
         IN
         /\ created' = Append(created, transport)
         /\ transports' = IF HasSessionId(transport)
                             THEN MapSet(transports, transport.sessionId, n)
                             ELSE transports
         /\ connections' = Append(connections, n)
         /\ handledBy' = n
  /\ UNCHANGED <<hrVars, poVars>>

\* The transport numbered n is closed; its onclose callback runs.
McpClose(n) ==
  /\ n \in DOMAIN created
  /\ ~created[n].closed
  /\ created' = [created EXCEPT ![n].closed = TRUE]
  /\ transports' = IF HasSessionId(created[n])
                      THEN MapDelete(transports, created[n].sessionId)
                      ELSE transports
  /\ UNCHANGED <<connections, handledBy, hrVars, poVars>>

\* Request headers: none, a session id a client holds, and the name of a
\* property every object inherits.
SessionHeaders ==
  { EmptyMap } \cup [{"mcp-session-id"} -> {"session-1", "constructor"}]

----------------------------------------------------------------------------
(* Specifications.                                                         *)

\* Connections the router serves at a time.
Slots == 1..MaxInFlight

\* A connection with no request in flight.
Idle == [pc |-> "idle"]

Init ==
  /\ onboardingRecords = EmptyMap
  /\ offboardingRecords = EmptyMap
  /\ result = NoResult
  /\ requests = [s \in Slots |-> Idle]
  /\ purchaseOrders = InitialPurchaseOrders
  /\ response = NoResult
  /\ transports = EmptyMap
  /\ created = <<>>
  /\ connections = <<>>
  /\ handledBy = 0

\* executeTool called directly: no request of the router is involved.
Direct(call) == call /\ UNCHANGED <<requests, poVars, mcpVars>>

TrailLength(store, id) ==
  IF MapHas(store, id) THEN Len(store[id].auditTrail) ELSE 0

RECURSIVE TrailSum(_, _)
TrailSum(store, ids) ==
  IF ids = {}
    THEN 0
    ELSE LET id == CHOOSE x \in ids : TRUE
         IN TrailLength(store, id) + TrailSum(store, ids \ {id})

TotalAudit ==
  TrailSum(onboardingRecords, DOMAIN onboardingRecords)
  + TrailSum(offboardingRecords, DOMAIN offboardingRecords)

\* A call on id may append one entry.
Room(store, id) == IF MapHas(store, id) THEN TotalAudit < MaxTotalAudit ELSE TRUE

\* A call on id may replace the record by one with a single entry.
RoomToInitiate(store, id) == TotalAudit - TrailLength(store, id) < MaxTotalAudit

AllTrue(names) == { [n \in names |-> TRUE] }

FullSystems == { <<"hrms", "email", "network", "projectTools">> }

\* Spec: both stores and two employee ids at once, every tool, the
\* arguments of the documented workflow and both approval decisions.
Next ==
  \/ \E id \in EmployeeIds, args \in OnboardingEmployees :
       RoomToInitiate(onboardingRecords, id) /\ Direct(InitiateOnboarding(id, args))
  \/ \E args \in DecisionArgs(EmployeeIds, BOOLEAN) :
       Room(onboardingRecords, args.employeeId) /\ Direct(ApproveOnboarding(args))
  \/ \E args \in SystemsArgs(EmployeeIds, FullSystems) :
       Room(onboardingRecords, args.employeeId) /\ Direct(ProvisionSystems(args))
  \/ \E args \in EnrollArgs(EmployeeIds, {TRUE}) :
       Room(onboardingRecords, args.employeeId) /\ Direct(EnrollBenefits(args))
  \/ \E args \in ComplianceArgs(EmployeeIds, AllTrue(OnboardingComplianceFlags)) :
       Room(onboardingRecords, args.employeeId) /\ Direct(CheckOnboardingCompliance(args))
  \/ \E args \in CompleteArgs(EmployeeIds) :
       Room(onboardingRecords, args.employeeId) /\ Direct(CompleteOnboarding(args))
  \/ \E args \in InitiateOffboardingArgs(EmployeeIds) :
       RoomToInitiate(offboardingRecords, args.employeeId) /\ Direct(InitiateOffboarding(args))
  \/ \E args \in DecisionArgs(EmployeeIds, BOOLEAN) :
       Room(offboardingRecords, args.employeeId) /\ Direct(ApproveOffboarding(args))
  \/ \E args \in SystemsArgs(EmployeeIds, FullSystems) :
       Room(offboardingRecords, args.employeeId) /\ Direct(DeprovisionSystems(args))
  \/ \E args \in PayrollArgs(EmployeeIds, {TRUE}) :
       Room(offboardingRecords, args.employeeId) /\ Direct(ProcessFinalPayroll(args))
  \/ \E args \in ComplianceArgs(EmployeeIds, AllTrue(OffboardingComplianceFlags)) :
       Room(offboardingRecords, args.employeeId) /\ Direct(CheckOffboardingCompliance(args))
  \/ \E args \in CompleteArgs(EmployeeIds) :
       Room(offboardingRecords, args.employeeId) /\ Direct(CompleteOffboarding(args))
  \/ \E args \in IdArgs(EmployeeIds) : Direct(ValidateOnboardingData(args))
  \/ \E args \in IdArgs(EmployeeIds) : Direct(GetOnboardingStatus(args))
  \/ \E args \in IdArgs(EmployeeIds) : Direct(GetOffboardingStatus(args))
  \/ \E args \in ListArgs : Direct(ListPendingApprovals(args))
  \/ \E args \in IdArgs(EmployeeIds) : Direct(GetEmployeeDetails(args))

Spec == Init /\ [][Next]_vars

\* In the single-workflow specifications one employee id is taken through one
\* workflow at a time: a call on `store` is made while `other` is empty and
\* the record's trail is shorter than `max`.
FlowRoom(store, other, id, max) ==
  /\ DOMAIN other = {}
  /\ TrailLength(store, id) < max

\* SpecFlow: from initiation to completion and beyond, with affirmative
\* approvals and the arguments of the documented workflow.
NextFlow ==
  \/ \E id \in FlowIds, args \in FlowOnboardingEmployees :
       DOMAIN offboardingRecords = {} /\ Direct(InitiateOnboarding(id, args))
  \/ \E args \in DecisionArgs(FlowIds, {TRUE}) :
       FlowRoom(onboardingRecords, offboardingRecords, args.employeeId, MaxAudit)
       /\ Direct(ApproveOnboarding(args))
  \/ \E args \in SystemsArgs(FlowIds, FullSystems) :
       FlowRoom(onboardingRecords, offboardingRecords, args.employeeId, MaxAudit)
       /\ Direct(ProvisionSystems(args))
  \/ \E args \in EnrollArgs(FlowIds, {TRUE}) :
       FlowRoom(onboardingRecords, offboardingRecords, args.employeeId, MaxAudit)
       /\ Direct(EnrollBenefits(args))
  \/ \E args \in ComplianceArgs(FlowIds, AllTrue(OnboardingComplianceFlags)) :
       FlowRoom(onboardingRecords, offboardingRecords, args.employeeId, MaxAudit)
       /\ Direct(CheckOnboardingCompliance(args))
  \/ \E args \in CompleteArgs(FlowIds) :
       FlowRoom(onboardingRecords, offboardingRecords, args.employeeId, MaxAudit)
       /\ Direct(CompleteOnboarding(args))
  \/ \E args \in InitiateOffboardingArgs(FlowIds) :
       DOMAIN onboardingRecords = {} /\ Direct(InitiateOffboarding(args))
  \/ \E args \in DecisionArgs(FlowIds, {TRUE}) :
       FlowRoom(offboardingRecords, onboardingRecords, args.employeeId, MaxAudit)
       /\ Direct(ApproveOffboarding(args))
  \/ \E args \in SystemsArgs(FlowIds, FullSystems) :
       FlowRoom(offboardingRecords, onboardingRecords, args.employeeId, MaxAudit)
       /\ Direct(DeprovisionSystems(args))
  \/ \E args \in PayrollArgs(FlowIds, {TRUE}) :
       FlowRoom(offboardingRecords, onboardingRecords, args.employeeId, MaxAudit)
       /\ Direct(ProcessFinalPayroll(args))
  \/ \E args \in ComplianceArgs(FlowIds, AllTrue(OffboardingComplianceFlags)) :
       FlowRoom(offboardingRecords, onboardingRecords, args.employeeId, MaxAudit)
       /\ Direct(CheckOffboardingCompliance(args))
  \/ \E args \in CompleteArgs(FlowIds) :
       FlowRoom(offboardingRecords, onboardingRecords, args.employeeId, MaxAudit)
       /\ Direct(CompleteOffboarding(args))

SpecFlow == Init /\ [][NextFlow]_vars

\* SpecApproval: approvals and rejections by both roles, with and without
\* comments, interleaved with provisioning.
NextApproval ==
  \/ \E args \in InitiateOffboardingArgs(FlowIds) :
       DOMAIN onboardingRecords = {} /\ Direct(InitiateOffboarding(args))
  \/ \E args \in ApproveArgs(FlowIds) :
       FlowRoom(offboardingRecords, onboardingRecords, args.employeeId,
                MaxApprovalAudit)
       /\ Direct(ApproveOffboarding(args))
  \/ \E args \in SystemsArgs(FlowIds, FullSystems) :
       FlowRoom(offboardingRecords, onboardingRecords, args.employeeId,
                MaxApprovalAudit)
       /\ Direct(DeprovisionSystems(args))
  \/ \E id \in FlowIds, args \in FlowOnboardingEmployees :
       DOMAIN offboardingRecords = {} /\ Direct(InitiateOnboarding(id, args))
  \/ \E args \in ApproveArgs(FlowIds) :
       FlowRoom(onboardingRecords, offboardingRecords, args.employeeId,
                MaxApprovalAudit)
       /\ Direct(ApproveOnboarding(args))
  \/ \E args \in SystemsArgs(FlowIds, FullSystems) :
       FlowRoom(onboardingRecords, offboardingRecords, args.employeeId,
                MaxApprovalAudit)
       /\ Direct(ProvisionSystems(args))

SpecApproval == Init /\ [][NextApproval]_vars

\* SpecTrackers: the three checklist trackers with every argument shape
\* (partial, repeated, unknown and inherited names; present, absent, true and
\* false flags), and the completion gate.
NextTrackers ==
  \/ \E id \in FlowIds, args \in FlowOnboardingEmployees :
       DOMAIN offboardingRecords = {} /\ Direct(InitiateOnboarding(id, args))
  \/ \E args \in SystemsArgs(FlowIds, SystemLists) :
       FlowRoom(onboardingRecords, offboardingRecords, args.employeeId,
                MaxTrackerAudit)
       /\ Direct(ProvisionSystems(args))
  \/ \E args \in EnrollArgs(FlowIds, BOOLEAN) :
       FlowRoom(onboardingRecords, offboardingRecords, args.employeeId,
                MaxTrackerAudit)
       /\ Direct(EnrollBenefits(args))
  \/ \E args \in ComplianceArgs(FlowIds, OptionalFlags(OnboardingComplianceFlags)) :
       FlowRoom(onboardingRecords, offboardingRecords, args.employeeId,
                MaxTrackerAudit)
       /\ Direct(CheckOnboardingCompliance(args))
  \/ \E args \in CompleteArgs(FlowIds) :
       FlowRoom(onboardingRecords, offboardingRecords, args.employeeId,
                MaxTrackerAudit)
       /\ Direct(CompleteOnboarding(args))
  \/ \E args \in InitiateOffboardingArgs(FlowIds) :
       DOMAIN onboardingRecords = {} /\ Direct(InitiateOffboarding(args))
  \/ \E args \in SystemsArgs(FlowIds, SystemLists) :
       FlowRoom(offboardingRecords, onboardingRecords, args.employeeId,
                MaxTrackerAudit)
       /\ Direct(DeprovisionSystems(args))
  \/ \E args \in PayrollArgs(FlowIds, BOOLEAN) :
       FlowRoom(offboardingRecords, onboardingRecords, args.employeeId,
                MaxTrackerAudit)
       /\ Direct(ProcessFinalPayroll(args))
  \/ \E args \in ComplianceArgs(FlowIds, OptionalFlags(OffboardingComplianceFlags)) :
       FlowRoom(offboardingRecords, onboardingRecords, args.employeeId,
                MaxTrackerAudit)
       /\ Direct(CheckOffboardingCompliance(args))
  \/ \E args \in CompleteArgs(FlowIds) :
       FlowRoom(offboardingRecords, onboardingRecords, args.employeeId,
                MaxTrackerAudit)
       /\ Direct(CompleteOffboarding(args))

SpecTrackers == Init /\ [][NextTrackers]_vars

\* systems arguments of scenario D: the two halves and the full list.
PartialSystems ==
  { <<"email", "network">>,
    <<"hrms", "projectTools">>,
    <<"hrms", "email", "network", "projectTools">> }

\* SpecProvision: provisioning and deprovisioning in halves, interleaved with
\* approvals and rejections, so that the call finds the record in status
\* Initiated, Pending Approval, Approved or In Progress.
NextProvision ==
  \/ \E id \in FlowIds, args \in FlowOnboardingEmployees :
       DOMAIN offboardingRecords = {} /\ Direct(InitiateOnboarding(id, args))
  \/ \E args \in DecisionArgs(FlowIds, BOOLEAN) :
       FlowRoom(onboardingRecords, offboardingRecords, args.employeeId,
                MaxProvisionAudit)
       /\ Direct(ApproveOnboarding(args))
  \/ \E args \in SystemsArgs(FlowIds, PartialSystems) :
       FlowRoom(onboardingRecords, offboardingRecords, args.employeeId,
                MaxProvisionAudit)
       /\ Direct(ProvisionSystems(args))
  \/ \E args \in InitiateOffboardingArgs(FlowIds) :
       DOMAIN onboardingRecords = {} /\ Direct(InitiateOffboarding(args))
  \/ \E args \in DecisionArgs(FlowIds, BOOLEAN) :
       FlowRoom(offboardingRecords, onboardingRecords, args.employeeId,
                MaxProvisionAudit)
       /\ Direct(ApproveOffboarding(args))
  \/ \E args \in SystemsArgs(FlowIds, PartialSystems) :
       FlowRoom(offboardingRecords, onboardingRecords, args.employeeId,
                MaxProvisionAudit)
       /\ Direct(DeprovisionSystems(args))

SpecProvision == Init /\ [][NextProvision]_vars

\* switch (name) of executeTool.  generateEmployeeId() yields an id of FlowIds.
ExecuteTool(name, args) ==
  \/ name = "initiate_onboarding"
       /\ \E employeeId \in FlowIds : InitiateOnboarding(employeeId, args)
  \/ name = "validate_onboarding_data" /\ ValidateOnboardingData(args)
  \/ name = "approve_onboarding" /\ ApproveOnboarding(args)
  \/ name = "provision_systems" /\ ProvisionSystems(args)
  \/ name = "enroll_benefits" /\ EnrollBenefits(args)
  \/ name = "check_onboarding_compliance" /\ CheckOnboardingCompliance(args)
  \/ name = "complete_onboarding" /\ CompleteOnboarding(args)
  \/ name = "initiate_offboarding" /\ InitiateOffboarding(args)
  \/ name = "approve_offboarding" /\ ApproveOffboarding(args)
  \/ name = "deprovision_systems" /\ DeprovisionSystems(args)
  \/ name = "process_final_payroll" /\ ProcessFinalPayroll(args)
  \/ name = "check_offboarding_compliance" /\ CheckOffboardingCompliance(args)
  \/ name = "complete_offboarding" /\ CompleteOffboarding(args)
  \/ name = "get_onboarding_status" /\ GetOnboardingStatus(args)
  \/ name = "get_offboarding_status" /\ GetOffboardingStatus(args)
  \/ name = "list_pending_approvals" /\ ListPendingApprovals(args)
  \/ name = "get_employee_details" /\ GetEmployeeDetails(args)

\* The tools/call requests that create a record.
InitiateCalls ==
  { [name |-> "initiate_onboarding", args |-> a] : a \in FlowOnboardingEmployees }
  \cup
  { [name |-> "initiate_offboarding", args |-> a] : a \in InitiateOffboardingArgs(FlowIds) }

Calls(name, argSet) == { [name |-> name, args |-> a] : a \in argSet }

\* The tools/call requests clients post against one employee id: the tools of
\* the flow its record is in, and the queries.
OnboardingCalls ==
  Calls("approve_onboarding", DecisionArgs(FlowIds, {TRUE}))
  \cup Calls("provision_systems", SystemsArgs(FlowIds, FullSystems))
  \cup Calls("enroll_benefits", EnrollArgs(FlowIds, {TRUE}))
  \cup Calls("check_onboarding_compliance",
             ComplianceArgs(FlowIds, AllTrue(OnboardingComplianceFlags)))
  \cup Calls("complete_onboarding", CompleteArgs(FlowIds))
  \cup Calls("validate_onboarding_data", IdArgs(FlowIds))
  \cup Calls("get_onboarding_status", IdArgs(FlowIds))

OffboardingCalls ==
  Calls("approve_offboarding", DecisionArgs(FlowIds, {TRUE}))
  \cup Calls("deprovision_systems", SystemsArgs(FlowIds, FullSystems))
  \cup Calls("process_final_payroll", PayrollArgs(FlowIds, {TRUE}))
  \cup Calls("check_offboarding_compliance",
             ComplianceArgs(FlowIds, AllTrue(OffboardingComplianceFlags)))
  \cup Calls("complete_offboarding", CompleteArgs(FlowIds))
  \cup Calls("get_offboarding_status", IdArgs(FlowIds))

QueryCalls ==
  Calls("list_pending_approvals", [type : {"all"}])
  \cup Calls("get_employee_details", IdArgs(FlowIds))

RecordCalls ==
  (IF DOMAIN onboardingRecords # {} THEN OnboardingCalls ELSE {})
  \cup (IF DOMAIN offboardingRecords # {} THEN OffboardingCalls ELSE {})
  \cup QueryCalls

\* Connections with a request in flight.
InFlight == { s \in Slots : requests[s] # Idle }

\* A tools/call request arrives on a free connection; express.json() reads its
\* body before the route handler runs.
Accept(s, call) ==
  /\ requests[s] = Idle
  /\ requests' = [requests EXCEPT ![s] =
                    [pc |-> "parsing", name |-> call.name, args |-> call.args]]
  /\ UNCHANGED <<onboardingRecords, offboardingRecords, result, poVars, mcpVars>>

\* Mutant of Handle: while another request waits for its response, the tool's
\* writes are dropped.
HandleUnlessBusy(s) ==
  /\ requests[s].pc = "parsing"
  /\ IF \E t \in Slots \ {s} : requests[t].pc = "awaiting"
       THEN /\ result' = [success |-> TRUE]
            /\ UNCHANGED <<onboardingRecords, offboardingRecords>>
       ELSE ExecuteTool(requests[s].name, requests[s].args)
  /\ requests' = [requests EXCEPT ![s] =
                    [pc |-> "awaiting", name |-> requests[s].name,
                     args |-> requests[s].args, result |-> result']]
  /\ UNCHANGED <<poVars, mcpVars>>

\* The route handler of POST /message runs for a request: executeTool has no
\* await inside, so it runs from its switch to its return in the same turn of
\* the event loop; the handler then suspends at `await` with the value.
Handle(s) ==
  /\ requests[s].pc = "parsing"
  /\ ExecuteTool(requests[s].name, requests[s].args)
  /\ requests' = [requests EXCEPT ![s] =
                    [pc |-> "awaiting", name |-> requests[s].name,
                     args |-> requests[s].args, result |-> result']]
  /\ UNCHANGED <<poVars, mcpVars>>

\* The handler resumes after `await` and sends the JSON-RPC response.
Respond(s) ==
  /\ requests[s].pc = "awaiting"
  /\ requests' = [requests EXCEPT ![s] = Idle]
  /\ UNCHANGED <<onboardingRecords, offboardingRecords, result, poVars, mcpVars>>

\* SpecConcurrent: clients post requests against one employee id over two
\* connections; the requests are handled in any order.  A record is created
\* while nothing else is in flight.
NextConcurrent ==
  \/ \E s \in Slots, call \in InitiateCalls :
       /\ DOMAIN onboardingRecords = {} /\ DOMAIN offboardingRecords = {}
       /\ \A t \in Slots : requests[t] = Idle
       /\ Accept(s, call)
  \/ \E s \in Slots, call \in RecordCalls :
       /\ TotalAudit + Cardinality(InFlight) < MaxConcurrentAudit
       /\ Accept(s, call)
  \/ \E s \in Slots : Handle(s)
  \/ \E s \in Slots : Respond(s)

SpecConcurrent == Init /\ [][NextConcurrent]_vars

\* SpecWorkflow: a caller follows the documented workflow against one
\* employee id.  Each of its steps is the next missing one: an affirmative
\* approval for a role that has not approved, the provisioning of the missing
\* systems, a compliance call setting the missing flags, a finance call while a finance flag is missing, and the
\* completion once nothing is missing.  Rejections and flag-clearing
\* compliance calls are issued while the record has fewer than
\* MaxDisturbedAudit audit entries, and never afterwards.
SystemOrder == <<"hrms", "email", "network", "projectTools">>

MissingSystems(flags) == SelectSeq(SystemOrder, LAMBDA system : ~flags[system])

MissingSystemLists(flags) ==
  IF MissingSystems(flags) = <<>>
    THEN {}
    ELSE { MissingSystems(flags) }

MissingFlags(flags) == { f \in DOMAIN flags : ~flags[f] }

NothingMissing(record, systems, finance) ==
  /\ \A role \in Roles : record.approvals[role].approved
  /\ MissingSystems(record[systems]) = <<>>
  /\ MissingFlags(record.compliance) = {}
  /\ MissingFlags(record[finance]) = {}

Disturbable(store, id) ==
  MapHas(store, id) /\ Len(store[id].auditTrail) < MaxDisturbedAudit

WorkflowApproveOnboarding(id) ==
  \E args \in DecisionArgs({id}, {TRUE}) :
    /\ MapHas(onboardingRecords, id)
    /\ ~onboardingRecords[id].approvals[args.approverRole].approved
    /\ Direct(ApproveOnboarding(args))

WorkflowProvisionSystems(id) ==
  /\ MapHas(onboardingRecords, id)
  /\ \E args \in SystemsArgs({id},
                   MissingSystemLists(onboardingRecords[id].systemProvisioning)) :
       Direct(ProvisionSystems(args))

WorkflowCheckOnboardingCompliance(id) ==
  /\ MapHas(onboardingRecords, id)
  /\ MissingFlags(onboardingRecords[id].compliance) # {}
  /\ \E args \in ComplianceArgs({id},
                   AllTrue(MissingFlags(onboardingRecords[id].compliance))) :
       Direct(CheckOnboardingCompliance(args))

WorkflowEnrollBenefits(id) ==
  /\ MapHas(onboardingRecords, id)
  /\ MissingFlags(onboardingRecords[id].financeEnrollment) # {}
  /\ \E args \in EnrollArgs({id}, {TRUE}) : Direct(EnrollBenefits(args))

WorkflowCompleteOnboarding(id) ==
  /\ MapHas(onboardingRecords, id)
  /\ NothingMissing(onboardingRecords[id], "systemProvisioning", "financeEnrollment")
  /\ onboardingRecords[id].status # "Completed"
  /\ \E args \in CompleteArgs({id}) : Direct(CompleteOnboarding(args))

WorkflowApproveOffboarding(id) ==
  \E args \in DecisionArgs({id}, {TRUE}) :
    /\ MapHas(offboardingRecords, id)
    /\ ~offboardingRecords[id].approvals[args.approverRole].approved
    /\ Direct(ApproveOffboarding(args))

WorkflowDeprovisionSystems(id) ==
  /\ MapHas(offboardingRecords, id)
  /\ \E args \in SystemsArgs({id},
                   MissingSystemLists(offboardingRecords[id].systemDeprovisioning)) :
       Direct(DeprovisionSystems(args))

WorkflowCheckOffboardingCompliance(id) ==
  /\ MapHas(offboardingRecords, id)
  /\ MissingFlags(offboardingRecords[id].compliance) # {}
  /\ \E args \in ComplianceArgs({id},
                   AllTrue(MissingFlags(offboardingRecords[id].compliance))) :
       Direct(CheckOffboardingCompliance(args))

WorkflowProcessFinalPayroll(id) ==
  /\ MapHas(offboardingRecords, id)
  /\ MissingFlags(offboardingRecords[id].finalPayroll) # {}
  /\ \E args \in PayrollArgs({id}, {TRUE}) : Direct(ProcessFinalPayroll(args))

WorkflowCompleteOffboarding(id) ==
  /\ MapHas(offboardingRecords, id)
  /\ NothingMissing(offboardingRecords[id], "systemDeprovisioning", "finalPayroll")
  /\ offboardingRecords[id].status # "Completed"
  /\ \E args \in CompleteArgs({id}) : Direct(CompleteOffboarding(args))

\* The caller's steps.
WorkflowStep ==
  \E id \in FlowIds :
    \/ WorkflowApproveOnboarding(id)
    \/ WorkflowProvisionSystems(id)
    \/ WorkflowCheckOnboardingCompliance(id)
    \/ WorkflowEnrollBenefits(id)
    \/ WorkflowCompleteOnboarding(id)
    \/ WorkflowApproveOffboarding(id)
    \/ WorkflowDeprovisionSystems(id)
    \/ WorkflowCheckOffboardingCompliance(id)
    \/ WorkflowProcessFinalPayroll(id)
    \/ WorkflowCompleteOffboarding(id)

\* A compliance call that clears one flag.
ClearedFlag(names) == { [f \in {name} |-> FALSE] : name \in names }

NextWorkflow ==
  \/ \E id \in FlowIds, args \in FlowOnboardingEmployees :
       /\ DOMAIN onboardingRecords = {} /\ DOMAIN offboardingRecords = {}
       /\ Direct(InitiateOnboarding(id, args))
  \/ \E args \in InitiateOffboardingArgs(FlowIds) :
       /\ DOMAIN onboardingRecords = {} /\ DOMAIN offboardingRecords = {}
       /\ Direct(InitiateOffboarding(args))
  \/ \E id \in FlowIds : WorkflowApproveOnboarding(id)
  \/ \E id \in FlowIds : WorkflowProvisionSystems(id)
  \/ \E id \in FlowIds : WorkflowCheckOnboardingCompliance(id)
  \/ \E id \in FlowIds : WorkflowEnrollBenefits(id)
  \/ \E id \in FlowIds : WorkflowCompleteOnboarding(id)
  \/ \E id \in FlowIds : WorkflowApproveOffboarding(id)
  \/ \E id \in FlowIds : WorkflowDeprovisionSystems(id)
  \/ \E id \in FlowIds : WorkflowCheckOffboardingCompliance(id)
  \/ \E id \in FlowIds : WorkflowProcessFinalPayroll(id)
  \/ \E id \in FlowIds : WorkflowCompleteOffboarding(id)
  \/ \E args \in DecisionArgs(FlowIds, {FALSE}) :
       /\ Disturbable(onboardingRecords, args.employeeId)
       /\ Direct(ApproveOnboarding(args))
  \/ \E args \in ComplianceArgs(FlowIds, ClearedFlag(OnboardingComplianceFlags)) :
       /\ Disturbable(onboardingRecords, args.employeeId)
       /\ Direct(CheckOnboardingCompliance(args))
  \/ \E args \in DecisionArgs(FlowIds, {FALSE}) :
       /\ Disturbable(offboardingRecords, args.employeeId)
       /\ Direct(ApproveOffboarding(args))
  \/ \E args \in ComplianceArgs(FlowIds, ClearedFlag(OffboardingComplianceFlags)) :
       /\ Disturbable(offboardingRecords, args.employeeId)
       /\ Direct(CheckOffboardingCompliance(args))

\* The caller keeps issuing steps: weak fairness on them.
SpecWorkflow == Init /\ [][NextWorkflow]_vars /\ WF_vars(WorkflowStep)

\* SpecCompleted: the caller of SpecWorkflow takes a record to Completed;
\* rejections and flag-clearing compliance calls are then issued against the
\* completed record, and the caller goes on with the steps that are missing
\* again.
Reopenable(store, id) ==
  /\ MapHas(store, id)
  /\ store[id].status = "Completed"
  /\ Len(store[id].auditTrail) < MaxCompletedAudit

NextCompleted ==
  \/ \E id \in FlowIds, args \in FlowOnboardingEmployees :
       /\ DOMAIN onboardingRecords = {} /\ DOMAIN offboardingRecords = {}
       /\ Direct(InitiateOnboarding(id, args))
  \/ \E args \in InitiateOffboardingArgs(FlowIds) :
       /\ DOMAIN onboardingRecords = {} /\ DOMAIN offboardingRecords = {}
       /\ Direct(InitiateOffboarding(args))
  \/ \E id \in FlowIds : WorkflowApproveOnboarding(id)
  \/ \E id \in FlowIds : WorkflowProvisionSystems(id)
  \/ \E id \in FlowIds : WorkflowCheckOnboardingCompliance(id)
  \/ \E id \in FlowIds : WorkflowEnrollBenefits(id)
  \/ \E id \in FlowIds : WorkflowCompleteOnboarding(id)
  \/ \E id \in FlowIds : WorkflowApproveOffboarding(id)
  \/ \E id \in FlowIds : WorkflowDeprovisionSystems(id)
  \/ \E id \in FlowIds : WorkflowCheckOffboardingCompliance(id)
  \/ \E id \in FlowIds : WorkflowProcessFinalPayroll(id)
  \/ \E id \in FlowIds : WorkflowCompleteOffboarding(id)
  \/ \E args \in DecisionArgs(FlowIds, {FALSE}) :
       /\ Reopenable(onboardingRecords, args.employeeId)
       /\ Direct(ApproveOnboarding(args))
  \/ \E args \in ComplianceArgs(FlowIds, ClearedFlag(OnboardingComplianceFlags)) :
       /\ Reopenable(onboardingRecords, args.employeeId)
       /\ Direct(CheckOnboardingCompliance(args))
  \/ \E args \in DecisionArgs(FlowIds, {FALSE}) :
       /\ Reopenable(offboardingRecords, args.employeeId)
       /\ Direct(ApproveOffboarding(args))
  \/ \E args \in ComplianceArgs(FlowIds, ClearedFlag(OffboardingComplianceFlags)) :
       /\ Reopenable(offboardingRecords, args.employeeId)
       /\ Direct(CheckOffboardingCompliance(args))

SpecCompleted == Init /\ [][NextCompleted]_vars

\* SpecPO: clients post approvals, rejections and reassignments against the
\* three purchase orders and read the notifications, in any order.
RECURSIVE HistorySum(_)
HistorySum(orders) ==
  IF orders = <<>> THEN 0 ELSE Len(Head(orders).history) + HistorySum(Tail(orders))

PoRoom == HistorySum(purchaseOrders) < MaxPoHistory

NextPO ==
  \/ PoNotifications
  \/ \E body \in DecisionBodies : PoRoom /\ PoApprove(body)
  \/ \E body \in DecisionBodies : PoRoom /\ PoReject(body)
  \/ \E body \in ReassignBodies : PoRoom /\ PoReassign(body)

SpecPO == Init /\ [][NextPO]_vars

\* SpecMcp: requests with and without a session header reach the Streamable
\* HTTP router, and transports are closed, in any order.
NextMcp ==
  \/ \E headers \in SessionHeaders :
       Len(created) < MaxTransports /\ McpRequest(headers)
  \/ \E n \in 1..MaxTransports : McpClose(n)

SpecMcp == Init /\ [][NextMcp]_vars

----------------------------------------------------------------------------
(* The other copies of the engine.                                         *)

\* z.array(z.enum(['hrms', 'email', 'network', 'projectTools']))
SystemsSchema(systems) == \A i \in DOMAIN systems : systems[i] \in Systems

\* z.boolean()
BooleanSchema(args, field) == field \in DOMAIN args /\ args[field] \in BOOLEAN

\* The zod schemas of the mcpTool definitions, on the fields whose schema is
\* narrower than a string: the systems array, the approver role, the list
\* type and the required booleans.
McpToolSchema(name, args) ==
  CASE name \in {"provision_systems", "deprovision_systems"} ->
         SystemsSchema(args.systems)
    [] name \in {"approve_onboarding", "approve_offboarding"} ->
         args.approverRole \in Roles /\ BooleanSchema(args, "approved")
    [] name = "enroll_benefits" ->
         BooleanSchema(args, "enrollPayroll") /\ BooleanSchema(args, "enrollBenefits")
    [] name = "process_final_payroll" ->
         BooleanSchema(args, "processFinalPayroll")
         /\ BooleanSchema(args, "terminateBenefits")
    [] name = "list_pending_approvals" ->
         args.type \in {"onboarding", "offboarding", "all"}
    [] OTHER -> TRUE

\* The schemas of the McpServer registrations: the same, and
\* z.string().email() for the email of initiate_onboarding (of the addresses
\* used here the empty one is not an email address).
ServerToolSchema(name, args) ==
  IF name = "initiate_onboarding" THEN args.email # "" ELSE McpToolSchema(name, args)

\* A call whose arguments fail the schema is answered with an error and the
\* handler does not run.
InvalidArguments ==
  /\ result' = [error |-> "Invalid arguments"]
  /\ UNCHANGED <<onboardingRecords, offboardingRecords>>

\* The stdio CallToolRequestSchema handler: the switch of executeTool, with
\* the arguments cast and not validated.
CallTool(name, args) == ExecuteTool(name, args)

\* An mcpTool handler: the same body behind the tool's schema.
McpTool(name, args) ==
  IF McpToolSchema(name, args) THEN ExecuteTool(name, args) ELSE InvalidArguments

\* A server.tool registration: the same body behind the registration's schema.
ServerTool(name, args) ==
  IF ServerToolSchema(name, args) THEN ExecuteTool(name, args) ELSE InvalidArguments

\* The calls of SpecTrackers, by tool name.
TrackerCalls ==
  Calls("initiate_onboarding", FlowOnboardingEmployees)
  \cup Calls("provision_systems", SystemsArgs(FlowIds, SystemLists))
  \cup Calls("enroll_benefits", EnrollArgs(FlowIds, BOOLEAN))
  \cup Calls("check_onboarding_compliance",
             ComplianceArgs(FlowIds, OptionalFlags(OnboardingComplianceFlags)))
  \cup Calls("complete_onboarding", CompleteArgs(FlowIds))
  \cup Calls("initiate_offboarding", InitiateOffboardingArgs(FlowIds))
  \cup Calls("deprovision_systems", SystemsArgs(FlowIds, SystemLists))
  \cup Calls("process_final_payroll", PayrollArgs(FlowIds, BOOLEAN))
  \cup Calls("check_offboarding_compliance",
             ComplianceArgs(FlowIds, OptionalFlags(OffboardingComplianceFlags)))
  \cup Calls("complete_offboarding", CompleteArgs(FlowIds))

----------------------------------------------------------------------------
(* Vocabulary of the properties.                                           *)

\* The last call returned success:true.
Succeeded(r) == "success" \in DOMAIN r /\ r.success

\* The last call returned success:false.
Failed(r) == "success" \in DOMAIN r /\ ~r.success

\* The last call was a complete_* call that went through.
ReturnedCompletion(r) == Succeeded(r) /\ "completionDate" \in DOMAIN r

\* The last call was a complete_* call refused with a checklist.
ReturnedChecklist(r) == Failed(r) /\ "checklist" \in DOMAIN r

BothApproved(record) ==
  record.approvals.hr.approved /\ record.approvals.manager.approved

\* The completion preconditions of an onboarding record, flag by flag.
OnboardingReady(record) ==
  /\ BothApproved(record)
  /\ \A f \in Systems : record.systemProvisioning[f]
  /\ \A f \in OnboardingComplianceFlags : record.compliance[f]
  /\ record.financeEnrollment.payroll /\ record.financeEnrollment.benefits

\* The completion preconditions of an offboarding record, flag by flag.
OffboardingReady(record) ==
  /\ BothApproved(record)
  /\ \A f \in Systems : record.systemDeprovisioning[f]
  /\ \A f \in OffboardingComplianceFlags : record.compliance[f]
  /\ record.finalPayroll.processed /\ record.finalPayroll.benefitsTerminated

StatusOf(store, id) == store[id].status

\* The step keeps the record stored under id.
Kept(store, id) == MapHas(store, id) /\ MapHas(store', id)

----------------------------------------------------------------------------
(* C1 .. C10                                                               *)

\* C1: a complete_onboarding / complete_offboarding call leaves the record
\* Completed and returns success:true when, at the moment of the call, both
\* approvals and every flag of the three trackers are true; in every other
\* case it returns success:false and does not set the status.
C1_CompletionGate ==
  [][ /\ \A args \in CompleteArgs(FlowIds) :
           CompleteOnboarding(args) =>
             IF /\ MapHas(onboardingRecords, args.employeeId)
                /\ OnboardingReady(onboardingRecords[args.employeeId])
               THEN /\ Succeeded(result')
                    /\ StatusOf(onboardingRecords', args.employeeId) = "Completed"
               ELSE /\ Failed(result')
                    /\ \A id \in DOMAIN onboardingRecords' :
                         /\ MapHas(onboardingRecords, id)
                         /\ StatusOf(onboardingRecords', id)
                              = StatusOf(onboardingRecords, id)
      /\ \A args \in CompleteArgs(FlowIds) :
           CompleteOffboarding(args) =>
             IF /\ MapHas(offboardingRecords, args.employeeId)
                /\ OffboardingReady(offboardingRecords[args.employeeId])
               THEN /\ Succeeded(result')
                    /\ StatusOf(offboardingRecords', args.employeeId) = "Completed"
               ELSE /\ Failed(result')
                    /\ \A id \in DOMAIN offboardingRecords' :
                         /\ MapHas(offboardingRecords, id)
                         /\ StatusOf(offboardingRecords', id)
                              = StatusOf(offboardingRecords, id)
    ]_vars

\* C1 witness: complete_onboarding has just succeeded on a ready record.
C1_Witness ==
  /\ ReturnedCompletion(result)
  /\ MapHas(onboardingRecords, "EMP-1")
  /\ OnboardingReady(onboardingRecords["EMP-1"])
  /\ onboardingRecords["EMP-1"].status = "Completed"


\* C2: a complete_* call made while a precondition is false leaves the record
\* as it was: status, approvals, every flag and the whole audit trail.
C2_RefusedCompletionChangesNothing ==
  [][ /\ \A args \in CompleteArgs(FlowIds) :
           ( /\ CompleteOnboarding(args)
             /\ MapHas(onboardingRecords, args.employeeId)
             /\ ~OnboardingReady(onboardingRecords[args.employeeId]) )
           => /\ MapHas(onboardingRecords', args.employeeId)
              /\ onboardingRecords'[args.employeeId]
                   = onboardingRecords[args.employeeId]
      /\ \A args \in CompleteArgs(FlowIds) :
           ( /\ CompleteOffboarding(args)
             /\ MapHas(offboardingRecords, args.employeeId)
             /\ ~OffboardingReady(offboardingRecords[args.employeeId]) )
           => /\ MapHas(offboardingRecords', args.employeeId)
              /\ offboardingRecords'[args.employeeId]
                   = offboardingRecords[args.employeeId]
    ]_vars

\* C2 witness: complete_onboarding has just been refused on an approved
\* record whose systems are not provisioned (scenario C).
C2_Witness ==
  /\ ReturnedChecklist(result)
  /\ MapHas(onboardingRecords, "EMP-1")
  /\ BothApproved(onboardingRecords["EMP-1"])
  /\ ~onboardingRecords["EMP-1"].systemProvisioning.email
  /\ onboardingRecords["EMP-1"].status = "Approved"
  /\ Len(onboardingRecords["EMP-1"].auditTrail) = 3

\* The step is an initiate_* call, which stores a new record.
InitiateStep ==
  \/ \E id \in EmployeeIds, args \in OnboardingEmployees :
       InitiateOnboarding(id, args)
  \/ \E args \in InitiateOffboardingArgs(EmployeeIds) : InitiateOffboarding(args)

\* C3: once a record is Completed, no later call on it (approve, provision or
\* deprovision, compliance, finance or payroll, complete, query) changes its
\* status.
C3_CompletedIsTerminal ==
  [][ ~InitiateStep =>
        /\ \A id \in DOMAIN onboardingRecords :
             onboardingRecords[id].status = "Completed"
               => /\ MapHas(onboardingRecords', id)
                  /\ onboardingRecords'[id].status = "Completed"
        /\ \A id \in DOMAIN offboardingRecords :
             offboardingRecords[id].status = "Completed"
               => /\ MapHas(offboardingRecords', id)
                  /\ offboardingRecords'[id].status = "Completed"
    ]_vars

\* The status of the record under id before the step was not Completed
\* (or there was no record).
NotCompletedBefore(store, id) ==
  IF MapHas(store, id) THEN store[id].status # "Completed" ELSE TRUE

\* C4: a record's status becomes Completed only by a complete_* call on that
\* record that returns success:true.
C4_OnlyCompletionCompletes ==
  [][ /\ \A id \in DOMAIN onboardingRecords' :
           ( /\ onboardingRecords'[id].status = "Completed"
             /\ NotCompletedBefore(onboardingRecords, id) )
           => /\ ReturnedCompletion(result')
              /\ \E args \in CompleteArgs({id}) : CompleteOnboarding(args)
      /\ \A id \in DOMAIN offboardingRecords' :
           ( /\ offboardingRecords'[id].status = "Completed"
             /\ NotCompletedBefore(offboardingRecords, id) )
           => /\ ReturnedCompletion(result')
              /\ \E args \in CompleteArgs({id}) : CompleteOffboarding(args)
    ]_vars

\* C4 witness: complete_offboarding has just closed a record.
C4_Witness ==
  /\ ReturnedCompletion(result)
  /\ MapHas(offboardingRecords, "EMP-1")
  /\ offboardingRecords["EMP-1"].status = "Completed"
  /\ Len(offboardingRecords["EMP-1"].auditTrail) = 7

\* No flag of the tracker that is true before the step is false after it.
FlagsKept(before, after) ==
  \A f \in DOMAIN before : before[f] => (f \in DOMAIN after /\ after[f])

\* C5: a checklist flag that is true stays true after every later call on the
\* record.
C5_FlagsMonotone ==
  [][ ~InitiateStep =>
        /\ \A id \in DOMAIN onboardingRecords :
             /\ MapHas(onboardingRecords', id)
             /\ FlagsKept(onboardingRecords[id].systemProvisioning,
                          onboardingRecords'[id].systemProvisioning)
             /\ FlagsKept(onboardingRecords[id].compliance,
                          onboardingRecords'[id].compliance)
             /\ FlagsKept(onboardingRecords[id].financeEnrollment,
                          onboardingRecords'[id].financeEnrollment)
        /\ \A id \in DOMAIN offboardingRecords :
             /\ MapHas(offboardingRecords', id)
             /\ FlagsKept(offboardingRecords[id].systemDeprovisioning,
                          offboardingRecords'[id].systemDeprovisioning)
             /\ FlagsKept(offboardingRecords[id].compliance,
                          offboardingRecords'[id].compliance)
             /\ FlagsKept(offboardingRecords[id].finalPayroll,
                          offboardingRecords'[id].finalPayroll)
    ]_vars

\* The step appends exactly one entry to the trail of the record under id.
Appended(store, id) ==
  /\ Kept(store, id)
  /\ Len(store'[id].auditTrail) = Len(store[id].auditTrail) + 1

\* C6: every successful mutating call on an existing record makes its audit
\* trail one entry longer, and initiate_* stores a record with one entry.
C6_OneAuditEntryPerCall ==
  [][ /\ \A id \in FlowIds, args \in FlowOnboardingEmployees :
           InitiateOnboarding(id, args)
             => /\ MapHas(onboardingRecords', id)
                /\ Len(onboardingRecords'[id].auditTrail) = 1
      /\ \A args \in InitiateOffboardingArgs(FlowIds) :
           InitiateOffboarding(args)
             => /\ MapHas(offboardingRecords', args.employeeId)
                /\ Len(offboardingRecords'[args.employeeId].auditTrail) = 1
      /\ \A args \in DecisionArgs(FlowIds, {TRUE}) :
           ApproveOnboarding(args) /\ MapHas(onboardingRecords, args.employeeId)
             => Appended(onboardingRecords, args.employeeId)
      /\ \A args \in SystemsArgs(FlowIds, FullSystems) :
           ProvisionSystems(args) /\ MapHas(onboardingRecords, args.employeeId)
             => Appended(onboardingRecords, args.employeeId)
      /\ \A args \in EnrollArgs(FlowIds, {TRUE}) :
           EnrollBenefits(args) /\ MapHas(onboardingRecords, args.employeeId)
             => Appended(onboardingRecords, args.employeeId)
      /\ \A args \in ComplianceArgs(FlowIds, AllTrue(OnboardingComplianceFlags)) :
           CheckOnboardingCompliance(args) /\ MapHas(onboardingRecords, args.employeeId)
             => Appended(onboardingRecords, args.employeeId)
      /\ \A args \in CompleteArgs(FlowIds) :
           CompleteOnboarding(args) /\ MapHas(onboardingRecords, args.employeeId) /\ Succeeded(result')
             => Appended(onboardingRecords, args.employeeId)
      /\ \A args \in DecisionArgs(FlowIds, {TRUE}) :
           ApproveOffboarding(args) /\ MapHas(offboardingRecords, args.employeeId)
             => Appended(offboardingRecords, args.employeeId)
      /\ \A args \in SystemsArgs(FlowIds, FullSystems) :
           DeprovisionSystems(args) /\ MapHas(offboardingRecords, args.employeeId)
             => Appended(offboardingRecords, args.employeeId)
      /\ \A args \in PayrollArgs(FlowIds, {TRUE}) :
           ProcessFinalPayroll(args) /\ MapHas(offboardingRecords, args.employeeId)
             => Appended(offboardingRecords, args.employeeId)
      /\ \A args \in ComplianceArgs(FlowIds, AllTrue(OffboardingComplianceFlags)) :
           CheckOffboardingCompliance(args) /\ MapHas(offboardingRecords, args.employeeId)
             => Appended(offboardingRecords, args.employeeId)
      /\ \A args \in CompleteArgs(FlowIds) :
           CompleteOffboarding(args) /\ MapHas(offboardingRecords, args.employeeId) /\ Succeeded(result')
             => Appended(offboardingRecords, args.employeeId)
    ]_vars

\* C6 witness: enroll_benefits has just succeeded and its entry is the fourth
\* of the record's audit trail.
C6_Witness ==
  /\ Succeeded(result)
  /\ "financeEnrollment" \in DOMAIN result
  /\ MapHas(onboardingRecords, "EMP-1")
  /\ Len(onboardingRecords["EMP-1"].auditTrail) = 4
  /\ onboardingRecords["EMP-1"].auditTrail[4].actor = "Finance System"

IsPrefix(s, t) == Len(s) <= Len(t) /\ SubSeq(t, 1, Len(s)) = s

\* C7: for every employee id and every call, the audit trail stored under the
\* id before the call is a prefix of the trail stored under it afterwards.
C7_AuditTrailAppendOnly ==
  [][ /\ \A id \in DOMAIN onboardingRecords :
           /\ MapHas(onboardingRecords', id)
           /\ IsPrefix(onboardingRecords[id].auditTrail,
                       onboardingRecords'[id].auditTrail)
      /\ \A id \in DOMAIN offboardingRecords :
           /\ MapHas(offboardingRecords', id)
           /\ IsPrefix(offboardingRecords[id].auditTrail,
                       offboardingRecords'[id].auditTrail)
    ]_vars

\* C8: an approve_* call leaves the record Approved if and only if both role
\* slots are approved right after the call.
C8_ApprovedIffBothApproved ==
  [][ /\ \A args \in ApproveArgs(FlowIds) :
           ApproveOnboarding(args) /\ MapHas(onboardingRecords, args.employeeId)
             => ( onboardingRecords'[args.employeeId].status = "Approved"
                  <=> BothApproved(onboardingRecords'[args.employeeId]) )
      /\ \A args \in ApproveArgs(FlowIds) :
           ApproveOffboarding(args) /\ MapHas(offboardingRecords, args.employeeId)
             => ( offboardingRecords'[args.employeeId].status = "Approved"
                  <=> BothApproved(offboardingRecords'[args.employeeId]) )
    ]_vars

\* C9: an approve_* call with approved=false leaves the record in status
\* Pending Approval, in both workflows.
C9_RejectionSetsPendingApproval ==
  [][ /\ \A args \in ApproveArgs(FlowIds) :
           ( /\ ~args.approved
             /\ ApproveOnboarding(args)
             /\ MapHas(onboardingRecords, args.employeeId) )
           => onboardingRecords'[args.employeeId].status = "Pending Approval"
      /\ \A args \in ApproveArgs(FlowIds) :
           ( /\ ~args.approved
             /\ ApproveOffboarding(args)
             /\ MapHas(offboardingRecords, args.employeeId) )
           => offboardingRecords'[args.employeeId].status = "Pending Approval"
    ]_vars

\* Position of a status in Initiated, Pending Approval, Approved, In Progress,
\* Completed.
Rank(status) ==
  CASE status = "Initiated" -> 0
    [] status = "Pending Approval" -> 1
    [] status = "Approved" -> 2
    [] status = "In Progress" -> 3
    [] status = "Completed" -> 4

\* The step moves the record under id to an earlier status.
MovedBack(store, id) ==
  /\ Kept(store, id)
  /\ Rank(store'[id].status) < Rank(store[id].status)

\* C10: the only call that moves a record to an earlier status is an
\* approve_* call with approved=false, and it moves it to Pending Approval.
C10_StatusOnlyMovesForward ==
  [][ ~InitiateStep =>
        /\ \A id \in DOMAIN onboardingRecords :
             MovedBack(onboardingRecords, id)
               => /\ onboardingRecords'[id].status = "Pending Approval"
                  /\ \E args \in ApproveArgs({id}) :
                       ~args.approved /\ ApproveOnboarding(args)
        /\ \A id \in DOMAIN offboardingRecords :
             MovedBack(offboardingRecords, id)
               => /\ offboardingRecords'[id].status = "Pending Approval"
                  /\ \E args \in ApproveArgs({id}) :
                       ~args.approved /\ ApproveOffboarding(args)
    ]_vars

----------------------------------------------------------------------------
(* C11 .. C20                                                              *)

\* Every flag named in Systems is true in the tracker.
AllSystemsTrue(flags) == \A f \in Systems : f \in DOMAIN flags /\ flags[f]

\* C11: after every successful provision_systems / deprovision_systems call
\* the record's status is In Progress, whatever it was before; and a call with
\* [hrms, projectTools] that follows a call with [email, network] on the same
\* record leaves all four flags true.
C11_ProvisioningForcesInProgress ==
  [][ /\ \A args \in SystemsArgs(FlowIds, PartialSystems) :
           ProvisionSystems(args) /\ Succeeded(result')
             => /\ MapHas(onboardingRecords', args.employeeId)
                /\ StatusOf(onboardingRecords', args.employeeId) = "In Progress"
      /\ \A args \in SystemsArgs(FlowIds, PartialSystems) :
           DeprovisionSystems(args) /\ Succeeded(result')
             => /\ MapHas(offboardingRecords', args.employeeId)
                /\ StatusOf(offboardingRecords', args.employeeId) = "In Progress"
      /\ \A id \in FlowIds :
           ( /\ Succeeded(result)
             /\ "provisionedSystems" \in DOMAIN result
             /\ result.provisionedSystems = <<"email", "network">>
             /\ result.employeeId = id
             /\ ProvisionSystems([employeeId |-> id,
                                  systems |-> <<"hrms", "projectTools">>]) )
           => AllSystemsTrue(onboardingRecords'[id].systemProvisioning)
      /\ \A id \in FlowIds :
           ( /\ Succeeded(result)
             /\ "deprovisionedSystems" \in DOMAIN result
             /\ result.deprovisionedSystems = <<"email", "network">>
             /\ result.employeeId = id
             /\ DeprovisionSystems([employeeId |-> id,
                                    systems |-> <<"hrms", "projectTools">>]) )
           => AllSystemsTrue(offboardingRecords'[id].systemDeprovisioning)
    ]_vars

\* C11 witness: a Pending Approval record has been provisioned with
\* [email, network] and then with [hrms, projectTools] (scenario D).
C11_Witness ==
  /\ Succeeded(result)
  /\ "provisionedSystems" \in DOMAIN result
  /\ result.provisionedSystems = <<"hrms", "projectTools">>
  /\ MapHas(onboardingRecords, "EMP-1")
  /\ Len(onboardingRecords["EMP-1"].auditTrail) = 4
  /\ onboardingRecords["EMP-1"].auditTrail[2].action = <<"HR", "Rejected">>
  /\ onboardingRecords["EMP-1"].auditTrail[3].details
       = <<"Provisioned:", "email", "network">>
  /\ AllSystemsTrue(onboardingRecords["EMP-1"].systemProvisioning)
  /\ onboardingRecords["EMP-1"].status = "In Progress"

\* The step appends one entry with this action and actor to the trail of the
\* record under id and keeps the entries that were there.
AppendedEntry(store, id, action, actor) ==
  /\ Appended(store, id)
  /\ IsPrefix(store[id].auditTrail, store'[id].auditTrail)
  /\ store'[id].auditTrail[Len(store'[id].auditTrail)].action = action
  /\ store'[id].auditTrail[Len(store'[id].auditTrail)].actor = actor

\* C12: when both approvals and every tracker flag are true, complete_*
\* returns success:true, sets the status to Completed and appends exactly one
\* audit entry, with action 'Onboarding Completed' / 'Offboarding Completed'
\* and the completedBy argument as actor; approvals and flags are unchanged.
C12_CompletionEffect ==
  [][ /\ \A args \in CompleteArgs(FlowIds) :
           ( /\ CompleteOnboarding(args)
             /\ MapHas(onboardingRecords, args.employeeId)
             /\ OnboardingReady(onboardingRecords[args.employeeId]) )
           => /\ Succeeded(result')
              /\ AppendedEntry(onboardingRecords, args.employeeId,
                               <<"Onboarding Completed">>, args.completedBy)
              /\ onboardingRecords'[args.employeeId].status = "Completed"
              /\ onboardingRecords'[args.employeeId].approvals
                   = onboardingRecords[args.employeeId].approvals
              /\ onboardingRecords'[args.employeeId].systemProvisioning
                   = onboardingRecords[args.employeeId].systemProvisioning
              /\ onboardingRecords'[args.employeeId].compliance
                   = onboardingRecords[args.employeeId].compliance
              /\ onboardingRecords'[args.employeeId].financeEnrollment
                   = onboardingRecords[args.employeeId].financeEnrollment
      /\ \A args \in CompleteArgs(FlowIds) :
           ( /\ CompleteOffboarding(args)
             /\ MapHas(offboardingRecords, args.employeeId)
             /\ OffboardingReady(offboardingRecords[args.employeeId]) )
           => /\ Succeeded(result')
              /\ AppendedEntry(offboardingRecords, args.employeeId,
                               <<"Offboarding Completed">>, args.completedBy)
              /\ offboardingRecords'[args.employeeId].status = "Completed"
              /\ offboardingRecords'[args.employeeId].approvals
                   = offboardingRecords[args.employeeId].approvals
              /\ offboardingRecords'[args.employeeId].systemDeprovisioning
                   = offboardingRecords[args.employeeId].systemDeprovisioning
              /\ offboardingRecords'[args.employeeId].compliance
                   = offboardingRecords[args.employeeId].compliance
              /\ offboardingRecords'[args.employeeId].finalPayroll
                   = offboardingRecords[args.employeeId].finalPayroll
    ]_vars

\* C12 witness: complete_onboarding has just appended the seventh entry, the
\* completion entry signed by completedBy (scenario E).
C12_Witness ==
  /\ ReturnedCompletion(result)
  /\ MapHas(onboardingRecords, "EMP-1")
  /\ Len(onboardingRecords["EMP-1"].auditTrail) = 7
  /\ onboardingRecords["EMP-1"].auditTrail[7].action = <<"Onboarding Completed">>
  /\ onboardingRecords["EMP-1"].auditTrail[7].actor = "HR2"
  /\ onboardingRecords["EMP-1"].status = "Completed"

\* Every flag of the set is true in the tracker.
AllFlags(tracker, flags) == \A f \in flags : tracker[f]

\* C13: the checklist returned by a refused complete_* call has four entries,
\* each equal to the truth value of its precondition on the stored record
\* (both approvals; all provisioning / deprovisioning flags; all compliance
\* flags; both finance / final payroll flags), and at least one is false.
C13_ChecklistIsExact ==
  [][ /\ \A args \in CompleteArgs(FlowIds) :
           ( /\ CompleteOnboarding(args)
             /\ MapHas(onboardingRecords, args.employeeId)
             /\ ReturnedChecklist(result') )
           => /\ MapHas(onboardingRecords', args.employeeId)
              /\ DOMAIN result'.checklist
                   = {"approvals", "systemProvisioning", "compliance",
                      "financeEnrollment"}
              /\ result'.checklist.approvals
                   <=> BothApproved(onboardingRecords'[args.employeeId])
              /\ result'.checklist.systemProvisioning
                   <=> AllFlags(onboardingRecords'[args.employeeId].systemProvisioning,
                                Systems)
              /\ result'.checklist.compliance
                   <=> AllFlags(onboardingRecords'[args.employeeId].compliance,
                                OnboardingComplianceFlags)
              /\ result'.checklist.financeEnrollment
                   <=> AllFlags(onboardingRecords'[args.employeeId].financeEnrollment,
                                {"payroll", "benefits"})
              /\ \E k \in DOMAIN result'.checklist : ~result'.checklist[k]
      /\ \A args \in CompleteArgs(FlowIds) :
           ( /\ CompleteOffboarding(args)
             /\ MapHas(offboardingRecords, args.employeeId)
             /\ ReturnedChecklist(result') )
           => /\ MapHas(offboardingRecords', args.employeeId)
              /\ DOMAIN result'.checklist
                   = {"approvals", "systemDeprovisioning", "compliance",
                      "finalPayroll"}
              /\ result'.checklist.approvals
                   <=> BothApproved(offboardingRecords'[args.employeeId])
              /\ result'.checklist.systemDeprovisioning
                   <=> AllFlags(offboardingRecords'[args.employeeId].systemDeprovisioning,
                                Systems)
              /\ result'.checklist.compliance
                   <=> AllFlags(offboardingRecords'[args.employeeId].compliance,
                                OffboardingComplianceFlags)
              /\ result'.checklist.finalPayroll
                   <=> AllFlags(offboardingRecords'[args.employeeId].finalPayroll,
                                {"processed", "benefitsTerminated"})
              /\ \E k \in DOMAIN result'.checklist : ~result'.checklist[k]
    ]_vars

\* C13 witness: complete_offboarding has just been refused on a record that
\* lacks only the compliance checks, and the checklist says so.
C13_Witness ==
  /\ ReturnedChecklist(result)
  /\ result.checklist
       = [approvals |-> TRUE, systemDeprovisioning |-> TRUE,
          compliance |-> FALSE, finalPayroll |-> TRUE]
  /\ MapHas(offboardingRecords, "EMP-1")
  /\ BothApproved(offboardingRecords["EMP-1"])
  /\ ~offboardingRecords["EMP-1"].compliance.assetsReturned
  /\ offboardingRecords["EMP-1"].finalPayroll.processed

OtherRole(role) == IF role = "hr" THEN "manager" ELSE "hr"

\* The record has just been initiated: nothing but the initiation is on it.
Fresh(record) == Len(record.auditTrail) = 1 /\ record.status = "Initiated"

\* The record was Fresh and one affirmative approval, by this role, followed.
OnceApproved(record, role) ==
  /\ Len(record.auditTrail) = 2
  /\ record.status = "Initiated"
  /\ record.approvals[role].approved
  /\ ~record.approvals[OtherRole(role)].approved

\* C14: an approve_* call with approved=true made while the other role's slot
\* is not approved leaves the status as it was and returns it; on a freshly
\* initiated record the first approval returns Initiated and the approval by
\* the other role that follows returns Approved, in either order of the roles.
C14_SingleApprovalKeepsStatus ==
  [][ /\ \A args \in ApproveArgs(FlowIds) :
           ( /\ args.approved
             /\ ApproveOnboarding(args)
             /\ MapHas(onboardingRecords, args.employeeId) )
           => LET before == onboardingRecords[args.employeeId]
                  after == onboardingRecords'[args.employeeId]
              IN /\ ~before.approvals[OtherRole(args.approverRole)].approved
                      => /\ after.status = before.status
                         /\ result'.status = before.status
                 /\ Fresh(before) => result'.status = "Initiated"
                 /\ OnceApproved(before, OtherRole(args.approverRole))
                      => /\ result'.status = "Approved"
                         /\ after.status = "Approved"
      /\ \A args \in ApproveArgs(FlowIds) :
           ( /\ args.approved
             /\ ApproveOffboarding(args)
             /\ MapHas(offboardingRecords, args.employeeId) )
           => LET before == offboardingRecords[args.employeeId]
                  after == offboardingRecords'[args.employeeId]
              IN /\ ~before.approvals[OtherRole(args.approverRole)].approved
                      => /\ after.status = before.status
                         /\ result'.status = before.status
                 /\ Fresh(before) => result'.status = "Initiated"
                 /\ OnceApproved(before, OtherRole(args.approverRole))
                      => /\ result'.status = "Approved"
                         /\ after.status = "Approved"
    ]_vars

\* C14 witness: the manager has approved an onboarding record that hr had
\* rejected before; the status is still Pending Approval.
C14_Witness ==
  /\ Succeeded(result)
  /\ "approverRole" \in DOMAIN result
  /\ result.approverRole = "manager"
  /\ result.approved
  /\ result.status = "Pending Approval"
  /\ MapHas(onboardingRecords, "EMP-1")
  /\ Len(onboardingRecords["EMP-1"].auditTrail) = 3
  /\ ~onboardingRecords["EMP-1"].approvals.hr.approved
  /\ onboardingRecords["EMP-1"].approvals.manager.approved
  /\ onboardingRecords["EMP-1"].status = "Pending Approval"

\* The last entry of the record's audit trail.
LastEntry(record) == record.auditTrail[Len(record.auditTrail)]

\* The step changes nothing of the record under id but its audit trail.
OnlyTrailDiffers(store, id) ==
  /\ Kept(store, id)
  /\ [store'[id] EXCEPT !.auditTrail = store[id].auditTrail] = store[id]

\* The last call was this provision_systems / deprovision_systems call.
JustProvisioned(args, field) ==
  /\ Succeeded(result)
  /\ field \in DOMAIN result
  /\ result[field] = args.systems
  /\ result.employeeId = args.employeeId

\* The last call was a finance call on the record with these two choices,
\* as its audit entry tells.
JustEnrolled(store, args, field, first, second) ==
  /\ Succeeded(result)
  /\ field \in DOMAIN result
  /\ result.employeeId = args.employeeId
  /\ MapHas(store, args.employeeId)
  /\ LastEntry(store[args.employeeId]).details[2] = BoolString(first)
  /\ LastEntry(store[args.employeeId]).details[4] = BoolString(second)

\* The last call was a compliance check on the record that left every flag
\* named in args at the value args gives it, as the same call does.
JustChecked(store, args) ==
  /\ Succeeded(result)
  /\ "allCompliant" \in DOMAIN result
  /\ result.employeeId = args.employeeId
  /\ MapHas(store, args.employeeId)
  /\ LastEntry(store[args.employeeId]).action = <<"Compliance Check">>
  /\ \A f \in DOMAIN args \ {"employeeId"} : result.compliance[f] = args[f]

\* C15: a provision / deprovision, compliance or finance / payroll call that
\* repeats the call just made on the record leaves every flag and the status
\* as the first call left them; only the audit trail differs.
C15_RepeatedCallKeepsFlags ==
  [][ /\ \A args \in SystemsArgs(FlowIds, SystemLists) :
           JustProvisioned(args, "provisionedSystems") /\ ProvisionSystems(args)
             => OnlyTrailDiffers(onboardingRecords, args.employeeId)
      /\ \A args \in SystemsArgs(FlowIds, SystemLists) :
           JustProvisioned(args, "deprovisionedSystems") /\ DeprovisionSystems(args)
             => OnlyTrailDiffers(offboardingRecords, args.employeeId)
      /\ \A args \in EnrollArgs(FlowIds, BOOLEAN) :
           ( /\ JustEnrolled(onboardingRecords, args, "financeEnrollment",
                             args.enrollPayroll, args.enrollBenefits)
             /\ EnrollBenefits(args) )
             => OnlyTrailDiffers(onboardingRecords, args.employeeId)
      /\ \A args \in PayrollArgs(FlowIds, BOOLEAN) :
           ( /\ JustEnrolled(offboardingRecords, args, "finalPayroll",
                             args.processFinalPayroll, args.terminateBenefits)
             /\ ProcessFinalPayroll(args) )
             => OnlyTrailDiffers(offboardingRecords, args.employeeId)
      /\ \A args \in ComplianceArgs(FlowIds, OptionalFlags(OnboardingComplianceFlags)) :
           JustChecked(onboardingRecords, args) /\ CheckOnboardingCompliance(args)
             => OnlyTrailDiffers(onboardingRecords, args.employeeId)
      /\ \A args \in ComplianceArgs(FlowIds, OptionalFlags(OffboardingComplianceFlags)) :
           JustChecked(offboardingRecords, args) /\ CheckOffboardingCompliance(args)
             => OnlyTrailDiffers(offboardingRecords, args.employeeId)
    ]_vars

\* C15 witness: provision_systems has been called twice in a row with
\* [email, network] on a new record.
C15_Witness ==
  /\ JustProvisioned([employeeId |-> "EMP-1", systems |-> <<"email", "network">>],
                     "provisionedSystems")
  /\ MapHas(onboardingRecords, "EMP-1")
  /\ Len(onboardingRecords["EMP-1"].auditTrail) = 3
  /\ onboardingRecords["EMP-1"].auditTrail[2].details
       = <<"Provisioned:", "email", "network">>
  /\ onboardingRecords["EMP-1"].auditTrail[3].details
       = <<"Provisioned:", "email", "network">>
  /\ onboardingRecords["EMP-1"].systemProvisioning
       = [hrms |-> FALSE, email |-> TRUE, network |-> TRUE, projectTools |-> FALSE]
  /\ onboardingRecords["EMP-1"].status = "In Progress"

StoresUnchanged == UNCHANGED <<onboardingRecords, offboardingRecords>>

\* C16: get_onboarding_status, get_offboarding_status, list_pending_approvals,
\* get_employee_details and validate_onboarding_data leave both stores as they
\* were, whether or not the id exists.
C16_QueriesChangeNothing ==
  [][ /\ \A args \in IdArgs(EmployeeIds) :
           GetOnboardingStatus(args) => StoresUnchanged
      /\ \A args \in IdArgs(EmployeeIds) :
           GetOffboardingStatus(args) => StoresUnchanged
      /\ \A args \in ListArgs :
           ListPendingApprovals(args) => StoresUnchanged
      /\ \A args \in IdArgs(EmployeeIds) :
           GetEmployeeDetails(args) => StoresUnchanged
      /\ \A args \in IdArgs(EmployeeIds) :
           ValidateOnboardingData(args) => StoresUnchanged
    ]_vars

\* C16 witness: validate_onboarding_data has just reported the missing email
\* of a stored employee, whose record still has its single audit entry.
C16_Witness ==
  /\ Succeeded(result)
  /\ "missingFields" \in DOMAIN result
  /\ result.missingFields = <<"email">>
  /\ MapHas(onboardingRecords, result.employeeId)
  /\ onboardingRecords[result.employeeId].employee.name = "Carol"
  /\ Len(onboardingRecords[result.employeeId].auditTrail) = 1

\* The call is refused with an error string and neither store changes.
Refused ==
  /\ Failed(result')
  /\ "error" \in DOMAIN result'
  /\ result'.error \in {"Employee not found", "Offboarding record not found"}
  /\ StoresUnchanged

\* C17: approve, provision / deprovision, finance / payroll, compliance,
\* complete, status and validate calls on an employee id that is absent from
\* the store they work on return success:false with an error string, create
\* no record and leave both stores unchanged.
C17_AbsentIdIsRefused ==
  [][ /\ \A args \in DecisionArgs(EmployeeIds, BOOLEAN) :
           ~MapHas(onboardingRecords, args.employeeId) /\ ApproveOnboarding(args)
             => Refused
      /\ \A args \in SystemsArgs(EmployeeIds, FullSystems) :
           ~MapHas(onboardingRecords, args.employeeId) /\ ProvisionSystems(args)
             => Refused
      /\ \A args \in EnrollArgs(EmployeeIds, {TRUE}) :
           ~MapHas(onboardingRecords, args.employeeId) /\ EnrollBenefits(args)
             => Refused
      /\ \A args \in ComplianceArgs(EmployeeIds, AllTrue(OnboardingComplianceFlags)) :
           ~MapHas(onboardingRecords, args.employeeId) /\ CheckOnboardingCompliance(args)
             => Refused
      /\ \A args \in CompleteArgs(EmployeeIds) :
           ~MapHas(onboardingRecords, args.employeeId) /\ CompleteOnboarding(args)
             => Refused
      /\ \A args \in IdArgs(EmployeeIds) :
           ~MapHas(onboardingRecords, args.employeeId) /\ GetOnboardingStatus(args)
             => Refused
      /\ \A args \in IdArgs(EmployeeIds) :
           ~MapHas(onboardingRecords, args.employeeId) /\ ValidateOnboardingData(args)
             => Refused
      /\ \A args \in DecisionArgs(EmployeeIds, BOOLEAN) :
           ~MapHas(offboardingRecords, args.employeeId) /\ ApproveOffboarding(args)
             => Refused
      /\ \A args \in SystemsArgs(EmployeeIds, FullSystems) :
           ~MapHas(offboardingRecords, args.employeeId) /\ DeprovisionSystems(args)
             => Refused
      /\ \A args \in PayrollArgs(EmployeeIds, {TRUE}) :
           ~MapHas(offboardingRecords, args.employeeId) /\ ProcessFinalPayroll(args)
             => Refused
      /\ \A args \in ComplianceArgs(EmployeeIds, AllTrue(OffboardingComplianceFlags)) :
           ~MapHas(offboardingRecords, args.employeeId) /\ CheckOffboardingCompliance(args)
             => Refused
      /\ \A args \in CompleteArgs(EmployeeIds) :
           ~MapHas(offboardingRecords, args.employeeId) /\ CompleteOffboarding(args)
             => Refused
      /\ \A args \in IdArgs(EmployeeIds) :
           ~MapHas(offboardingRecords, args.employeeId) /\ GetOffboardingStatus(args)
             => Refused
    ]_vars

\* C17 witness: an offboarding call on an id that only the onboarding store
\* knows has just been refused.
C17_Witness ==
  /\ result = [success |-> FALSE, error |-> "Offboarding record not found"]
  /\ MapHas(onboardingRecords, "EMP-1")
  /\ ~MapHas(offboardingRecords, "EMP-1")
  /\ ~MapHas(offboardingRecords, "EMP-2")

\* No flag of the tracker is true, and the tracker has exactly these flags.
NoFlagSet(tracker, flags) ==
  DOMAIN tracker = flags /\ \A f \in flags : ~tracker[f]

\* Both approval slots are unset: approved is false, no approver, no date.
ApprovalsUnset(record) ==
  /\ DOMAIN record.approvals = Roles
  /\ \A role \in Roles :
       /\ DOMAIN record.approvals[role] = {"approved"}
       /\ ~record.approvals[role].approved

\* The trail is the single initiation entry signed by initiatedBy.
TrailIsInitiation(record, action, initiatedBy) ==
  /\ Len(record.auditTrail) = 1
  /\ record.auditTrail[1].action = action
  /\ record.auditTrail[1].actor = initiatedBy

\* C18: the record stored by initiate_onboarding / initiate_offboarding has
\* status Initiated, both approval slots unset (approved=false, no approver,
\* no date), every provisioning / deprovisioning, compliance and finance /
\* payroll flag false, and an audit trail of one entry, the initiation entry
\* with actor initiatedBy.
C18_InitiatedRecordDefaults ==
  [][ /\ \A id \in EmployeeIds, args \in OnboardingEmployees :
           InitiateOnboarding(id, args)
             => /\ MapHas(onboardingRecords', id)
                /\ onboardingRecords'[id].status = "Initiated"
                /\ ApprovalsUnset(onboardingRecords'[id])
                /\ NoFlagSet(onboardingRecords'[id].systemProvisioning, Systems)
                /\ NoFlagSet(onboardingRecords'[id].compliance,
                             OnboardingComplianceFlags)
                /\ NoFlagSet(onboardingRecords'[id].financeEnrollment,
                             {"payroll", "benefits"})
                /\ TrailIsInitiation(onboardingRecords'[id],
                                     <<"Onboarding Initiated">>, args.initiatedBy)
      /\ \A args \in InitiateOffboardingArgs(EmployeeIds) :
           InitiateOffboarding(args)
             => /\ MapHas(offboardingRecords', args.employeeId)
                /\ offboardingRecords'[args.employeeId].status = "Initiated"
                /\ ApprovalsUnset(offboardingRecords'[args.employeeId])
                /\ NoFlagSet(offboardingRecords'[args.employeeId].systemDeprovisioning,
                             Systems)
                /\ NoFlagSet(offboardingRecords'[args.employeeId].compliance,
                             OffboardingComplianceFlags)
                /\ NoFlagSet(offboardingRecords'[args.employeeId].finalPayroll,
                             {"processed", "benefitsTerminated"})
                /\ TrailIsInitiation(offboardingRecords'[args.employeeId],
                                     <<"Offboarding Initiated">>, args.initiatedBy)
    ]_vars

\* C18 witness: initiate_offboarding has just stored a record for EMP-2.
C18_Witness ==
  /\ Succeeded(result)
  /\ "lastWorkingDay" \in DOMAIN result
  /\ "nextSteps" \in DOMAIN result
  /\ result.employeeId = "EMP-2"
  /\ MapHas(offboardingRecords, "EMP-2")
  /\ offboardingRecords["EMP-2"].status = "Initiated"
  /\ Len(offboardingRecords["EMP-2"].auditTrail) = 1
  /\ offboardingRecords["EMP-2"].auditTrail[1].actor = "HR1"

\* The ids of the store whose record lacks an approval, when kind is requested.
AwaitingApproval(store, type, kind) ==
  IF type \in {kind, "all"}
    THEN { id \in DOMAIN store : ~BothApproved(store[id]) }
    ELSE {}

\* The list names exactly these ids, once each, each with the pending flags
\* of its record.
ListsExactly(list, store, ids) ==
  /\ { e.employeeId : e \in list } = ids
  /\ Cardinality(list) = Cardinality(ids)
  /\ \A e \in list :
       /\ e.employeeId \in DOMAIN store
       /\ e.pendingApprovals.hr = ~store[e.employeeId].approvals.hr.approved
       /\ e.pendingApprovals.manager = ~store[e.employeeId].approvals.manager.approved

\* Every fresh record of the store is listed with both roles pending.
FreshListed(list, store, type, kind) ==
  \A id \in DOMAIN store :
    Fresh(store[id]) /\ type \in {kind, "all"}
      => \E e \in list :
           /\ e.employeeId = id
           /\ e.pendingApprovals = [hr |-> TRUE, manager |-> TRUE]

\* C19: list_pending_approvals(type) returns, for each requested kind, exactly
\* the records of that store in which a role has approved=false, each with
\* per-role pending flags that negate the role's approved value, nothing of a
\* kind that was not requested, and totalPending is the number of records
\* returned; a freshly initiated record is listed with both roles pending.
C19_PendingListIsExact ==
  [][ \A args \in ListArgs :
        ListPendingApprovals(args)
          => /\ Succeeded(result')
             /\ ListsExactly(result'.pendingOnboarding, onboardingRecords,
                             AwaitingApproval(onboardingRecords, args.type,
                                              "onboarding"))
             /\ ListsExactly(result'.pendingOffboarding, offboardingRecords,
                             AwaitingApproval(offboardingRecords, args.type,
                                              "offboarding"))
             /\ result'.totalPending
                  = Cardinality(result'.pendingOnboarding)
                    + Cardinality(result'.pendingOffboarding)
             /\ FreshListed(result'.pendingOnboarding, onboardingRecords,
                            args.type, "onboarding")
             /\ FreshListed(result'.pendingOffboarding, offboardingRecords,
                            args.type, "offboarding")
    ]_vars

\* C19 witness: list_pending_approvals has just returned a fresh onboarding
\* record with both roles pending and an offboarding record that only the
\* manager has yet to approve.
C19_Witness ==
  /\ Succeeded(result)
  /\ "totalPending" \in DOMAIN result
  /\ result.totalPending = 2
  /\ \E e \in result.pendingOnboarding :
       e.pendingApprovals = [hr |-> TRUE, manager |-> TRUE]
  /\ \E e \in result.pendingOffboarding :
       e.pendingApprovals = [manager |-> TRUE, hr |-> FALSE]

\* The call answered with the data of this store.
AnsweredFrom(r, source) ==
  Succeeded(r) /\ "source" \in DOMAIN r /\ r.source = source

\* C20: get_employee_details(id) answers with source 'onboarding' whenever the
\* id is in the onboarding store, also when it is in both stores, with source
\* 'offboarding' when it is only in the offboarding store, and with a
\* not-found failure only when it is in neither.
C20_DetailsPreferOnboarding ==
  [][ \A args \in IdArgs(EmployeeIds) :
        GetEmployeeDetails(args)
          => /\ MapHas(onboardingRecords, args.employeeId)
                  => /\ AnsweredFrom(result', "onboarding")
                     /\ result'.employee
                          = onboardingRecords[args.employeeId].employee
             /\ ( /\ ~MapHas(onboardingRecords, args.employeeId)
                  /\ MapHas(offboardingRecords, args.employeeId) )
                  => /\ AnsweredFrom(result', "offboarding")
                     /\ result'.employeeId = args.employeeId
             /\ Failed(result')
                  <=> /\ ~MapHas(onboardingRecords, args.employeeId)
                      /\ ~MapHas(offboardingRecords, args.employeeId)
    ]_vars

\* C20 witness: get_employee_details has just answered from the onboarding
\* store for an id that both stores hold.
C20_Witness ==
  /\ AnsweredFrom(result, "onboarding")
  /\ MapHas(onboardingRecords, result.employee.id)
  /\ MapHas(offboardingRecords, result.employee.id)

----------------------------------------------------------------------------
(* C21 .. C30                                                              *)

\* Every record of the store stays under its key with its employeeId.
KeysStable(store) ==
  \A id \in DOMAIN store :
    /\ MapHas(store', id)
    /\ store'[id].employeeId = store[id].employeeId

\* C21: initiate_onboarding stores its record under an identifier that no
\* onboarding record uses yet, and no call changes the key or the employeeId
\* of a stored record.
C21_IdentifiersUniqueAndStable ==
  [][ /\ \A id \in EmployeeIds, args \in OnboardingEmployees :
           InitiateOnboarding(id, args) => ~MapHas(onboardingRecords, id)
      /\ KeysStable(onboardingRecords)
      /\ KeysStable(offboardingRecords)
    ]_vars

\* C22: initiate_offboarding with an employeeId that already has an
\* offboarding record returns a failure and leaves that record unchanged.
C22_DuplicateIdIsRefused ==
  [][ \A args \in InitiateOffboardingArgs(FlowIds) :
        MapHas(offboardingRecords, args.employeeId) /\ InitiateOffboarding(args)
          => /\ Failed(result')
             /\ offboardingRecords' = offboardingRecords
    ]_vars

\* C23: when complete_onboarding / complete_offboarding succeeds, the status
\* of the record just before the call is In Progress.
C23_CompletionOnlyFromInProgress ==
  [][ /\ \A args \in CompleteArgs(FlowIds) :
           ( /\ MapHas(onboardingRecords, args.employeeId)
             /\ CompleteOnboarding(args)
             /\ Succeeded(result') )
           => StatusOf(onboardingRecords, args.employeeId) = "In Progress"
      /\ \A args \in CompleteArgs(FlowIds) :
           ( /\ MapHas(offboardingRecords, args.employeeId)
             /\ CompleteOffboarding(args)
             /\ Succeeded(result') )
           => StatusOf(offboardingRecords, args.employeeId) = "In Progress"
    ]_vars

\* C24: the nextSteps returned by approve_* is the three-step list exactly
\* when both role slots are approved after the call, and
\* ['Pending other approvals'] otherwise.
C24_NextStepsFollowApprovals ==
  [][ /\ \A args \in ApproveArgs(FlowIds) :
           MapHas(onboardingRecords, args.employeeId) /\ ApproveOnboarding(args)
             => result'.nextSteps
                  = IF BothApproved(onboardingRecords'[args.employeeId])
                      THEN <<"System Provisioning", "Compliance Checks",
                             "Finance Enrollment">>
                      ELSE <<"Pending other approvals">>
      /\ \A args \in ApproveArgs(FlowIds) :
           MapHas(offboardingRecords, args.employeeId) /\ ApproveOffboarding(args)
             => result'.nextSteps
                  = IF BothApproved(offboardingRecords'[args.employeeId])
                      THEN <<"System Deprovisioning", "Compliance Checks",
                             "Final Payroll">>
                      ELSE <<"Pending other approvals">>
    ]_vars

\* The names of the tracker's flags that are true.
TrueFlags(tracker) == { f \in DOMAIN tracker : tracker[f] }

\* The names listed in the details of a provisioning entry, after its label.
NamesIn(details) == { details[i] : i \in 2..Len(details) }

\* C25: the audit entry appended by a tracker call records the flag values of
\* the tracker after the call, with the actor 'IT System', 'Finance System'
\* or 'Compliance System': a provisioning entry names the systems that are
\* provisioned, a finance entry gives the two finance flags, a compliance
\* entry gives the three compliance flags.
C25_TrackerEntryRecordsFlags ==
  [][ /\ \A args \in SystemsArgs(FlowIds, SystemLists) :
           MapHas(onboardingRecords, args.employeeId) /\ ProvisionSystems(args)
             => LET after == onboardingRecords'[args.employeeId] IN
                /\ LastEntry(after).actor = "IT System"
                /\ NamesIn(LastEntry(after).details)
                     = TrueFlags(after.systemProvisioning)
      /\ \A args \in SystemsArgs(FlowIds, SystemLists) :
           MapHas(offboardingRecords, args.employeeId) /\ DeprovisionSystems(args)
             => LET after == offboardingRecords'[args.employeeId] IN
                /\ LastEntry(after).actor = "IT System"
                /\ NamesIn(LastEntry(after).details)
                     = TrueFlags(after.systemDeprovisioning)
      /\ \A args \in EnrollArgs(FlowIds, BOOLEAN) :
           MapHas(onboardingRecords, args.employeeId) /\ EnrollBenefits(args)
             => LET after == onboardingRecords'[args.employeeId] IN
                /\ LastEntry(after).actor = "Finance System"
                /\ LastEntry(after).details
                     = <<"Payroll:", BoolString(after.financeEnrollment.payroll),
                         "Benefits:", BoolString(after.financeEnrollment.benefits)>>
      /\ \A args \in PayrollArgs(FlowIds, BOOLEAN) :
           MapHas(offboardingRecords, args.employeeId) /\ ProcessFinalPayroll(args)
             => LET after == offboardingRecords'[args.employeeId] IN
                /\ LastEntry(after).actor = "Finance System"
                /\ LastEntry(after).details
                     = <<"Final Payroll:", BoolString(after.finalPayroll.processed),
                         "Benefits Terminated:",
                         BoolString(after.finalPayroll.benefitsTerminated)>>
      /\ \A args \in ComplianceArgs(FlowIds, OptionalFlags(OnboardingComplianceFlags)) :
           MapHas(onboardingRecords, args.employeeId) /\ CheckOnboardingCompliance(args)
             => LET after == onboardingRecords'[args.employeeId] IN
                /\ LastEntry(after).actor = "Compliance System"
                /\ LastEntry(after).details
                     = <<"NDA:", BoolString(after.compliance.ndaSigned),
                         "ID:", BoolString(after.compliance.idVerified),
                         "Background:", BoolString(after.compliance.backgroundCheck)>>
      /\ \A args \in ComplianceArgs(FlowIds, OptionalFlags(OffboardingComplianceFlags)) :
           MapHas(offboardingRecords, args.employeeId) /\ CheckOffboardingCompliance(args)
             => LET after == offboardingRecords'[args.employeeId] IN
                /\ LastEntry(after).actor = "Compliance System"
                /\ LastEntry(after).details
                     = <<"Exit Form:", BoolString(after.compliance.exitFormSubmitted),
                         "Assets:", BoolString(after.compliance.assetsReturned),
                         "Clearance:",
                         BoolString(after.compliance.clearanceCertificate)>>
    ]_vars

\* The step leaves these fields of the record under id as they were.
FieldsKept(store, id, fields) ==
  /\ Kept(store, id)
  /\ \A f \in fields : store'[id][f] = store[id][f]

\* The step gives every flag named in args its value from args and leaves
\* every other flag of the compliance tracker as it was.
NamedFlagsApplied(store, args, flags) ==
  /\ Kept(store, args.employeeId)
  /\ DOMAIN store'[args.employeeId].compliance = flags
  /\ \A f \in flags :
       store'[args.employeeId].compliance[f]
         = IF f \in DOMAIN args
             THEN args[f]
             ELSE store[args.employeeId].compliance[f]

Listed(systems) == { systems[i] : i \in 1..Len(systems) }

\* C27: provision_systems / deprovision_systems with a name outside hrms,
\* email, network, projectTools succeeds and ignores the name: a fixed flag
\* that the call does not name keeps its value, and the tracker consists of
\* exactly its four fixed flags afterwards.
C27_UnknownSystemIgnored ==
  [][ /\ \A args \in SystemsArgs(FlowIds, SystemLists) :
           MapHas(onboardingRecords, args.employeeId) /\ ProvisionSystems(args)
             => /\ Succeeded(result')
                /\ DOMAIN onboardingRecords'[args.employeeId].systemProvisioning
                     = Systems
                /\ \A f \in Systems \ Listed(args.systems) :
                     onboardingRecords'[args.employeeId].systemProvisioning[f]
                       = onboardingRecords[args.employeeId].systemProvisioning[f]
      /\ \A args \in SystemsArgs(FlowIds, SystemLists) :
           MapHas(offboardingRecords, args.employeeId) /\ DeprovisionSystems(args)
             => /\ Succeeded(result')
                /\ DOMAIN offboardingRecords'[args.employeeId].systemDeprovisioning
                     = Systems
                /\ \A f \in Systems \ Listed(args.systems) :
                     offboardingRecords'[args.employeeId].systemDeprovisioning[f]
                       = offboardingRecords[args.employeeId].systemDeprovisioning[f]
    ]_vars

\* The step runs the route handler of the request on connection s.
HandledBy(s) == requests[s].pc = "parsing" /\ requests'[s].pc = "awaiting"

\* The step drops nothing from the records of the store: every record stays,
\* with its audit entries, its approvals given and its flags set.
NothingLost(store, trackers) ==
  \A id \in DOMAIN store :
    /\ MapHas(store', id)
    /\ IsPrefix(store[id].auditTrail, store'[id].auditTrail)
    /\ \A role \in Roles :
         store[id].approvals[role].approved => store'[id].approvals[role].approved
    /\ \A t \in trackers : FlagsKept(store[id][t], store'[id][t])

\* C28: requests in flight together against one employee id take effect one
\* at a time.  The stores change only in the step that runs a request's
\* handler; that step is the tool run alone on the stores as they are then,
\* the request gets the value the tool returned and the other request is
\* left as it was; and no audit entry, approval or flag set by another
\* request is lost.
C28_RequestsTakeEffectOneAtATime ==
  [][ /\ ~StoresUnchanged => \E s \in Slots : HandledBy(s)
      /\ \A s \in Slots :
           HandledBy(s)
             => /\ ExecuteTool(requests[s].name, requests[s].args)
                /\ requests'[s].result = result'
                /\ \A t \in Slots \ {s} : requests'[t] = requests[t]
      /\ NothingLost(onboardingRecords,
                     {"systemProvisioning", "compliance", "financeEnrollment"})
      /\ NothingLost(offboardingRecords,
                     {"systemDeprovisioning", "compliance", "finalPayroll"})
    ]_vars

\* C28 witness: the approvals of hr and of the manager were in flight
\* together; both handlers have run, each request holds its own answer and
\* the record carries both approvals and both audit entries.
C28_Witness ==
  /\ \A s \in {1, 2} : requests[s].pc = "awaiting"
  /\ requests[1].name = "approve_onboarding"
  /\ requests[1].args.approverRole = "hr"
  /\ Succeeded(requests[1].result)
  /\ requests[1].result.status = "Approved"
  /\ requests[2].name = "approve_onboarding"
  /\ requests[2].args.approverRole = "manager"
  /\ Succeeded(requests[2].result)
  /\ requests[2].result.status = "Initiated"
  /\ MapHas(onboardingRecords, "EMP-1")
  /\ BothApproved(onboardingRecords["EMP-1"])
  /\ Len(onboardingRecords["EMP-1"].auditTrail) = 3
  /\ onboardingRecords["EMP-1"].auditTrail[2].action = <<"MANAGER", "Approved">>
  /\ onboardingRecords["EMP-1"].auditTrail[3].action = <<"HR", "Approved">>

\* C29: following the documented workflow always finishes.  Under
\* SpecWorkflow, where the caller keeps issuing the next missing step and
\* rejecting or flag-clearing calls stop after finitely many, every record
\* that exists eventually has status Completed.
C29_WorkflowReachesCompleted ==
  \A id \in FlowIds :
    /\ MapHas(onboardingRecords, id)
         ~> (MapHas(onboardingRecords, id)
             /\ StatusOf(onboardingRecords, id) = "Completed")
    /\ MapHas(offboardingRecords, id)
         ~> (MapHas(offboardingRecords, id)
             /\ StatusOf(offboardingRecords, id) = "Completed")

\* C29 witness: hr approved and then rejected an onboarding; the caller
\* repeated the approval, issued the other missing steps and the record was
\* completed.
C29_Witness ==
  /\ MapHas(onboardingRecords, "EMP-1")
  /\ StatusOf(onboardingRecords, "EMP-1") = "Completed"
  /\ OnboardingReady(onboardingRecords["EMP-1"])
  /\ Len(onboardingRecords["EMP-1"].auditTrail) > 3
  /\ onboardingRecords["EMP-1"].auditTrail[2].action = <<"HR", "Approved">>
  /\ onboardingRecords["EMP-1"].auditTrail[3].action = <<"HR", "Rejected">>
  /\ ReturnedCompletion(result)

\* C30: an approve_* call sets the named role's slot to the decision, the
\* approver and the date, and besides the status and the audit trail changes
\* nothing else: the other role's slot and every flag stay as they were, for
\* approvals and rejections alike.
C30_ApprovalFrame ==
  [][ /\ \A args \in ApproveArgs(FlowIds) :
           MapHas(onboardingRecords, args.employeeId) /\ ApproveOnboarding(args)
             => /\ onboardingRecords'[args.employeeId].approvals[args.approverRole]
                     = [approved |-> args.approved, approver |-> args.approverName,
                        date |-> Now]
                /\ onboardingRecords'[args.employeeId].approvals[OtherRole(args.approverRole)]
                     = onboardingRecords[args.employeeId].approvals[OtherRole(args.approverRole)]
                /\ FieldsKept(onboardingRecords, args.employeeId,
                              DOMAIN onboardingRecords[args.employeeId]
                                \ {"approvals", "status", "auditTrail"})
      /\ \A args \in ApproveArgs(FlowIds) :
           MapHas(offboardingRecords, args.employeeId) /\ ApproveOffboarding(args)
             => /\ offboardingRecords'[args.employeeId].approvals[args.approverRole]
                     = [approved |-> args.approved, approver |-> args.approverName,
                        date |-> Now]
                /\ offboardingRecords'[args.employeeId].approvals[OtherRole(args.approverRole)]
                     = offboardingRecords[args.employeeId].approvals[OtherRole(args.approverRole)]
                /\ FieldsKept(offboardingRecords, args.employeeId,
                              DOMAIN offboardingRecords[args.employeeId]
                                \ {"approvals", "status", "auditTrail"})
    ]_vars

\* C30 witness: hr has rejected a provisioned onboarding record that the
\* manager had approved; the manager's slot and the four flags are as before.
C30_Witness ==
  /\ Succeeded(result)
  /\ "approverRole" \in DOMAIN result
  /\ result.approverRole = "hr"
  /\ ~result.approved
  /\ MapHas(onboardingRecords, "EMP-1")
  /\ Len(onboardingRecords["EMP-1"].auditTrail) = 4
  /\ onboardingRecords["EMP-1"].approvals.manager
       = [approved |-> TRUE, approver |-> "Ann", date |-> Now]
  /\ onboardingRecords["EMP-1"].approvals.hr.approved = FALSE
  /\ AllSystemsTrue(onboardingRecords["EMP-1"].systemProvisioning)

----------------------------------------------------------------------------
(* C31 .. C40                                                              *)

\* C31: the copies of the engine are equivalent.  Started in the same stores,
\* every call that the HTTP executeTool turns into a step is turned into the
\* same step (the same stores and the same returned value) by the stdio
\* handler, by the mcpTool handler and by the McpServer registration of that
\* tool, for the same arguments and the same generated identifier.
C31_CopiesAgree ==
  [][ \A call \in TrackerCalls :
        ExecuteTool(call.name, call.args)
          => /\ CallTool(call.name, call.args)
             /\ McpTool(call.name, call.args)
             /\ ServerTool(call.name, call.args)
    ]_vars

\* C32: in every reachable state a record whose status is Completed meets
\* the completion preconditions: both roles have approved and every
\* provisioning or deprovisioning, compliance and finance or final-payroll
\* flag is true.
C32_CompletedMeetsPreconditions ==
  /\ \A id \in DOMAIN onboardingRecords :
       onboardingRecords[id].status = "Completed"
         => OnboardingReady(onboardingRecords[id])
  /\ \A id \in DOMAIN offboardingRecords :
       offboardingRecords[id].status = "Completed"
         => OffboardingReady(offboardingRecords[id])

\* C33: in the onboarding workflow, in every reachable state a record whose
\* status is Approved has the hr slot and the manager slot with
\* approved = true.
C33_ApprovedHasBothApprovals ==
  \A id \in DOMAIN onboardingRecords :
    onboardingRecords[id].status = "Approved"
      => BothApproved(onboardingRecords[id])

\* C33 witness: the manager approved, hr approved, hr then rejected and
\* approved again: the record is Approved with both slots approved.
C33_Witness ==
  /\ MapHas(onboardingRecords, "EMP-1")
  /\ onboardingRecords["EMP-1"].status = "Approved"
  /\ Len(onboardingRecords["EMP-1"].auditTrail) = 5
  /\ onboardingRecords["EMP-1"].auditTrail[3].action = <<"HR", "Approved">>
  /\ onboardingRecords["EMP-1"].auditTrail[4].action = <<"HR", "Rejected">>
  /\ onboardingRecords["EMP-1"].auditTrail[5].action = <<"HR", "Approved">>
  /\ BothApproved(onboardingRecords["EMP-1"])

\* C34: provisioning is gated by approval.  In every reachable state a
\* record whose status is In Progress has both approval roles with
\* approved = true.
C34_InProgressHasBothApprovals ==
  /\ \A id \in DOMAIN onboardingRecords :
       onboardingRecords[id].status = "In Progress"
         => BothApproved(onboardingRecords[id])
  /\ \A id \in DOMAIN offboardingRecords :
       offboardingRecords[id].status = "In Progress"
         => BothApproved(offboardingRecords[id])

\* The entries of an audit trail that record a completion.
Completions(trail) ==
  { i \in DOMAIN trail :
      trail[i].action \in {<<"Onboarding Completed">>, <<"Offboarding Completed">>} }

\* C35: a record is completed at most once.  The audit trail of a record
\* holds at most one completion entry, whatever calls were made.
C35_CompletedAtMostOnce ==
  /\ \A id \in DOMAIN onboardingRecords :
       Cardinality(Completions(onboardingRecords[id].auditTrail)) <= 1
  /\ \A id \in DOMAIN offboardingRecords :
       Cardinality(Completions(offboardingRecords[id].auditTrail)) <= 1

\* The tools that take an employeeId argument, with the arguments of Spec.
OnboardingTools ==
  {"validate_onboarding_data", "approve_onboarding", "provision_systems",
   "enroll_benefits", "check_onboarding_compliance", "complete_onboarding",
   "get_onboarding_status"}

KeyedCalls ==
  Calls("validate_onboarding_data", IdArgs(EmployeeIds))
  \cup Calls("approve_onboarding", DecisionArgs(EmployeeIds, BOOLEAN))
  \cup Calls("provision_systems", SystemsArgs(EmployeeIds, FullSystems))
  \cup Calls("enroll_benefits", EnrollArgs(EmployeeIds, {TRUE}))
  \cup Calls("check_onboarding_compliance",
             ComplianceArgs(EmployeeIds, AllTrue(OnboardingComplianceFlags)))
  \cup Calls("complete_onboarding", CompleteArgs(EmployeeIds))
  \cup Calls("get_onboarding_status", IdArgs(EmployeeIds))
  \cup Calls("initiate_offboarding", InitiateOffboardingArgs(EmployeeIds))
  \cup Calls("approve_offboarding", DecisionArgs(EmployeeIds, BOOLEAN))
  \cup Calls("deprovision_systems", SystemsArgs(EmployeeIds, FullSystems))
  \cup Calls("process_final_payroll", PayrollArgs(EmployeeIds, {TRUE}))
  \cup Calls("check_offboarding_compliance",
             ComplianceArgs(EmployeeIds, AllTrue(OffboardingComplianceFlags)))
  \cup Calls("complete_offboarding", CompleteArgs(EmployeeIds))
  \cup Calls("get_offboarding_status", IdArgs(EmployeeIds))
  \cup Calls("get_employee_details", IdArgs(EmployeeIds))

\* The step leaves the other store as it was, and in the store it works on
\* every record under another id: none appears, none goes, none changes.
Isolated(store, other, id) ==
  /\ other' = other
  /\ DOMAIN store' \ {id} = DOMAIN store \ {id}
  /\ \A x \in DOMAIN store \ {id} : store'[x] = store[x]

\* C36: operations are isolated per record and per store.  A call keyed on
\* an employee id changes nothing in a record stored under another id and
\* nothing in the other workflow's store, a record stored there under the
\* same id included.
C36_OperationsAreIsolated ==
  [][ StoresUnchanged
      \/ /\ \A id \in EmployeeIds, args \in OnboardingEmployees :
               InitiateOnboarding(id, args)
                 => Isolated(onboardingRecords, offboardingRecords, id)
         /\ \A call \in KeyedCalls :
               ExecuteTool(call.name, call.args)
                 => IF call.name \in OnboardingTools
                      THEN Isolated(onboardingRecords, offboardingRecords,
                                    call.args.employeeId)
                      ELSE IF call.name = "get_employee_details"
                        THEN StoresUnchanged
                        ELSE Isolated(offboardingRecords, onboardingRecords,
                                      call.args.employeeId)
    ]_vars

\* C36 witness: Carol has an onboarding record under EMP-2 and EMP-1 an
\* offboarding record; initiate_onboarding has just stored Alice's record
\* under EMP-1, and the two other records are there as they were initiated.
C36_Witness ==
  /\ DOMAIN onboardingRecords = {"EMP-1", "EMP-2"}
  /\ MapHas(offboardingRecords, "EMP-1")
  /\ Succeeded(result)
  /\ "message" \in DOMAIN result
  /\ result.message = <<"Onboarding process initiated for", "Alice">>
  /\ result.employeeId = "EMP-1"
  /\ onboardingRecords["EMP-1"].employee.name = "Alice"
  /\ onboardingRecords["EMP-2"].employee.name = "Carol"
  /\ Len(onboardingRecords["EMP-2"].auditTrail) = 1
  /\ ApprovalsUnset(offboardingRecords["EMP-1"])
  /\ Len(offboardingRecords["EMP-1"].auditTrail) = 1

\* C37: provisioning or deprovisioning flags and finance or final-payroll
\* flags are never cleared.  In every call on a record, whatever its
\* arguments (finance calls with false values, lists that are empty or
\* repeat a name), a flag of these trackers that is true before the call is
\* true after it.
C37_TrackerFlagsNeverCleared ==
  [][ StoresUnchanged
      \/ InitiateStep
      \/ /\ \A id \in DOMAIN onboardingRecords :
               /\ MapHas(onboardingRecords', id)
               /\ \A t \in {"systemProvisioning", "financeEnrollment"} :
                    FlagsKept(onboardingRecords[id][t], onboardingRecords'[id][t])
         /\ \A id \in DOMAIN offboardingRecords :
               /\ MapHas(offboardingRecords', id)
               /\ \A t \in {"systemDeprovisioning", "finalPayroll"} :
                    FlagsKept(offboardingRecords[id][t], offboardingRecords'[id][t])
    ]_vars

\* C37 witness: an onboarding record was enrolled in payroll and benefits and
\* enroll_benefits was then called with false for both; the two flags are
\* still true.
C37_Witness ==
  /\ MapHas(onboardingRecords, "EMP-1")
  /\ Len(onboardingRecords["EMP-1"].auditTrail) = 3
  /\ onboardingRecords["EMP-1"].auditTrail[2].details
       = <<"Payroll:", "true", "Benefits:", "true">>
  /\ onboardingRecords["EMP-1"].auditTrail[3].details
       = <<"Payroll:", "false", "Benefits:", "false">>
  /\ onboardingRecords["EMP-1"].financeEnrollment.payroll
  /\ onboardingRecords["EMP-1"].financeEnrollment.benefits
  /\ "financeEnrollment" \in DOMAIN result

\* C38: purchase-order decisions are final.  Once the status of an order is
\* Approved or Rejected its currentApprover is 'None', and no later request
\* changes its status or its currentApprover.
C38_DecisionsAreFinal ==
  [][ \A i \in DOMAIN purchaseOrders :
        purchaseOrders[i].status \in {"Approved", "Rejected"}
          => /\ purchaseOrders[i].currentApprover = "None"
             /\ purchaseOrders'[i].status = purchaseOrders[i].status
             /\ purchaseOrders'[i].currentApprover = "None"
    ]_vars

\* The matrix of the order at index i.
MatrixOf(i) == getApprovalMatrix(purchaseOrders[i].region, purchaseOrders[i].amount)

\* C39: a purchase order becomes Approved only at the last level of its
\* approval matrix.  An approval of a pending order sets status Approved
\* when currentApprover is the final entry of the matrix and only then; at an
\* earlier level it keeps the order Pending and moves currentApprover to the
\* next entry; whatever approvals and reassignments came before.
C39_ApprovedOnlyAtLastLevel ==
  [][ \A body \in DecisionBodies :
        LET i == FindPo(body.poId) IN
        IF i # 0
          THEN (purchaseOrders[i].status = "Pending" /\ PoApprove(body))
                 => LET level == IndexOf(MatrixOf(i), purchaseOrders[i].currentApprover) IN
                    IF level = Len(MatrixOf(i))
                      THEN purchaseOrders'[i].status = "Approved"
                      ELSE /\ purchaseOrders'[i].status = "Pending"
                           /\ level # 0
                           /\ purchaseOrders'[i].currentApprover = MatrixOf(i)[level + 1]
          ELSE TRUE
    ]_vars

\* C40: in the Streamable HTTP router a transport created by an earlier
\* request and not yet closed can be named by a session id: it is in the
\* session map; a request whose mcp-session-id header names a transport of
\* the map is handled by that transport, with no transport created and the
\* server not connected again; and a closed transport is not in the map.
C40_SessionTransportIsReused ==
  /\ [](\A n \in DOMAIN created :
          ~created[n].closed => \E id \in DOMAIN transports : transports[id] = n)
  /\ [](\A id \in DOMAIN transports : ~created[transports[id]].closed)
  /\ [][ \A headers \in SessionHeaders :
            (/\ HasSessionHeader(headers)
             /\ MapHas(transports, headers["mcp-session-id"])
             /\ McpRequest(headers))
              => /\ handledBy' = transports[headers["mcp-session-id"]]
                 /\ created' = created
                 /\ connections' = connections
      ]_vars

====
